---- MODULE Spec2Model ----
(***************************************************************************)
(* A model of the Frontegg account migration tool.                         *)
(*                                                                         *)
(*   pc     position of the running function                               *)
(*   loc    the local variables of the running function, by name           *)
(*   calls  the HTTP requests sent so far, in order                        *)
(*   srv    what the two remote instances hold and answer                  *)
(*                                                                         *)
(* SpecMain is main.py's orchestrator; the other specifications are the    *)
(* entity steps it calls, each started from the call main makes.           *)
(***************************************************************************)
EXTENDS Integers, Sequences, FiniteSets, TLC

VARIABLES pc, loc, calls, srv

vars == <<pc, loc, calls, srv>>

None == "None"

Range(s) == {s[i] : i \in 1..Len(s)}

(***************************************************************************)
(* main.py: the orchestrator                                               *)
(***************************************************************************)

\* At most this many MIGRATE_* variables are set to "true" in the environment.
MaxEnabled == 4

FlagNames ==
    {"MIGRATE_TENANTS", "MIGRATE_CATEGORIES", "MIGRATE_PERMISSIONS", "MIGRATE_ROLES",
     "MIGRATE_USERS", "MIGRATE_USER_ROLES", "BULK_INVITE_USERS_TO_TENANTS",
     "ASSIGN_ROLES_TO_USERS_ON_ALL_TENANTS", "MIGRATE_GROUPS", "MIGRATE_APPLICATIONS",
     "MIGRATE_SECURITY_RULES", "MIGRATE_EMAIL_TEMPLATES", "MIGRATE_EMAIL_SENDER",
     "MIGRATE_PREHOOKS", "MIGRATE_ALLOWED_ORIGINS", "MIGRATE_JWT_SETTINGS"}

Clients == <<"client_1", "client_2">>

\* A step order in which roles are migrated before the categories and permissions.
Steps_RolesFirst ==
    <<"tenants", "roles", "settings", "users", "bulk_invite", "assign_roles", "groups",
      "applications", "security_rules", "email", "prehooks", "allowed_origins", "jwt">>

\* The entity steps in the order of main's if statements.
Steps ==
    <<"tenants", "settings", "roles", "users", "bulk_invite", "assign_roles", "groups",
      "applications", "security_rules", "email", "prehooks", "allowed_origins", "jwt">>

\* The condition of the if statement that guards step s.
StepEnabled(s, flags) ==
    CASE s = "tenants"         -> "MIGRATE_TENANTS" \in flags
      [] s = "settings"        -> "MIGRATE_CATEGORIES" \in flags \/ "MIGRATE_PERMISSIONS" \in flags
      [] s = "roles"           -> "MIGRATE_ROLES" \in flags
      [] s = "users"           -> "MIGRATE_USERS" \in flags \/ "MIGRATE_USER_ROLES" \in flags
      [] s = "bulk_invite"     -> "BULK_INVITE_USERS_TO_TENANTS" \in flags
      [] s = "assign_roles"    -> "ASSIGN_ROLES_TO_USERS_ON_ALL_TENANTS" \in flags
      [] s = "groups"          -> "MIGRATE_GROUPS" \in flags
      [] s = "applications"    -> "MIGRATE_APPLICATIONS" \in flags
      [] s = "security_rules"  -> "MIGRATE_SECURITY_RULES" \in flags
      [] s = "email"           -> "MIGRATE_EMAIL_TEMPLATES" \in flags \/ "MIGRATE_EMAIL_SENDER" \in flags
      [] s = "prehooks"        -> "MIGRATE_PREHOOKS" \in flags
      [] s = "allowed_origins" -> "MIGRATE_ALLOWED_ORIGINS" \in flags
      [] s = "jwt"             -> "MIGRATE_JWT_SETTINGS" \in flags

\* The phases of migrate_settings(source, destination, migrate_categories,
\* migrate_permissions), in the order of its statements; every other step is one phase.
SettingsPhases(flags) ==
    <<"map_categories">>
    \o (IF "MIGRATE_CATEGORIES" \in flags THEN <<"create_categories">> ELSE <<>>)
    \o (IF "MIGRATE_PERMISSIONS" \in flags
        THEN <<"remap_permissions", "create_permissions">> ELSE <<>>)

StepPhases(s, flags) == IF s = "settings" THEN SettingsPhases(flags) ELSE <<"body">>

\* The phases out of which an exception reaches main: create_categories and
\* create_roles re-raise, create_permissions and the users, bulk invite, role assignment
\* and groups steps have calls (open, requests.post, raise_for_status) outside any try.
\* The other steps catch Exception around every request.
RaisingPhases ==
    {<<"settings", "create_categories">>, <<"settings", "create_permissions">>,
     <<"roles", "body">>, <<"users", "body">>, <<"bulk_invite", "body">>,
     <<"assign_roles", "body">>, <<"groups", "body">>}

Event(ev, what) == [ev |-> ev, what |-> what]

InitMain ==
    /\ pc = "client_1"
    /\ \E flags \in {f \in SUBSET FlagNames : Cardinality(f) <= MaxEnabled} :
         loc = [flags |-> flags, token |-> [c \in Range(Clients) |-> None],
                idx |-> 1, running |-> None, phase |-> 0, trace |-> <<>>,
                failed |-> None]
    /\ calls = <<>>
    /\ srv = [auth |-> [c \in Range(Clients) |-> "unasked"]]

\* FronteggClient.__init__ of client c, with an authenticate that, when the request
\* fails, keeps the text of the answer as the token and returns.
InitClient_KeepsGoing(c) ==
    /\ pc = c
    /\ \E answer \in {"ok", "http_error", "no_token"} :
         /\ srv' = [srv EXCEPT !.auth[c] = answer]
         /\ calls' = Append(calls, [inst |-> c, method |-> "POST", kind |-> "auth"])
         /\ loc' = [loc EXCEPT !.token[c] = IF answer = "ok" THEN "token" ELSE "error"]
         /\ pc' = IF c = "client_1" THEN "client_2" ELSE "check_tokens"

\* FronteggClient.__init__ of client c: authenticate posts the credentials; a failed
\* request and an answer without a token both raise, which ends main.
InitClient(c) ==
    /\ pc = c
    /\ \E answer \in {"ok", "http_error", "no_token"} :
         /\ srv' = [srv EXCEPT !.auth[c] = answer]
         /\ calls' = Append(calls, [inst |-> c, method |-> "POST", kind |-> "auth"])
         /\ IF answer = "ok"
            THEN /\ loc' = [loc EXCEPT !.token[c] = "token"]
                 /\ pc' = IF c = "client_1" THEN "client_2" ELSE "check_tokens"
            ELSE /\ loc' = loc
                 /\ pc' = "crashed"

\* if frontegg_client_1.token and frontegg_client_2.token: ... else: log_error
CheckTokens ==
    /\ pc = "check_tokens"
    /\ pc' = IF loc.token["client_1"] # None /\ loc.token["client_2"] # None
             THEN "main_if" ELSE "auth_failed"
    /\ UNCHANGED <<loc, calls, srv>>

\* An if statement whose flag is off.
SkipStep ==
    /\ pc = "main_if"
    /\ loc.idx <= Len(Steps)
    /\ ~StepEnabled(Steps[loc.idx], loc.flags)
    /\ loc' = [loc EXCEPT !.idx = @ + 1]
    /\ UNCHANGED <<pc, calls, srv>>

\* An if statement whose flag is on: the step's function is called.
EnterStep ==
    /\ pc = "main_if"
    /\ loc.idx <= Len(Steps)
    /\ StepEnabled(Steps[loc.idx], loc.flags)
    /\ LET s == Steps[loc.idx] IN
         loc' = [loc EXCEPT !.running = s, !.phase = 1,
                            !.trace = @ \o <<Event("start", s),
                                             Event("start", StepPhases(s, loc.flags)[1])>>]
    /\ pc' = "in_step"
    /\ UNCHANGED <<calls, srv>>

\* The running step goes from one phase to the next.
NextPhase ==
    /\ pc = "in_step"
    /\ LET ph == StepPhases(loc.running, loc.flags) IN
         /\ loc.phase < Len(ph)
         /\ loc' = [loc EXCEPT !.phase = @ + 1,
                               !.trace = @ \o <<Event("end", ph[loc.phase]),
                                                Event("start", ph[loc.phase + 1])>>]
    /\ UNCHANGED <<pc, calls, srv>>

\* The running step returns to main.
StepReturn ==
    /\ pc = "in_step"
    /\ LET ph == StepPhases(loc.running, loc.flags) IN
         /\ loc.phase = Len(ph)
         /\ loc' = [loc EXCEPT !.running = None, !.phase = 0, !.idx = @ + 1,
                               !.trace = @ \o <<Event("end", ph[loc.phase]),
                                                Event("end", loc.running)>>]
    /\ pc' = "main_if"
    /\ UNCHANGED <<calls, srv>>

\* The running step raises; main has no try statement, so the exception ends the run.
StepRaise ==
    /\ pc = "in_step"
    /\ <<loc.running, StepPhases(loc.running, loc.flags)[loc.phase]>> \in RaisingPhases
    /\ loc' = [loc EXCEPT !.failed = loc.running]
    /\ pc' = "crashed"
    /\ UNCHANGED <<calls, srv>>

\* log_success("Migration process completed successfully!")
MainDone ==
    /\ pc = "main_if"
    /\ loc.idx > Len(Steps)
    /\ pc' = "done"
    /\ UNCHANGED <<loc, calls, srv>>

NextMain ==
    \/ \E c \in Range(Clients) : InitClient(c)
    \/ CheckTokens
    \/ SkipStep
    \/ EnterStep
    \/ NextPhase
    \/ StepReturn
    \/ StepRaise
    \/ MainDone

SpecMain == InitMain /\ [][NextMain]_vars

(***************************************************************************)
(* Claims about main                                                       *)
(***************************************************************************)

Started(s) == \E i \in 1..Len(loc.trace) : loc.trace[i] = Event("start", s)

\* Event a is in the trace and every event b comes after it.
Before(a, b) ==
    \A i \in 1..Len(loc.trace) :
        loc.trace[i] = b => \E j \in 1..(i - 1) : loc.trace[j] = a

MainEnded == pc \in {"done", "crashed", "auth_failed"}

\* C1: no step of main starts unless both clients authenticated: when the
\* authentication of either instance fails the run ends, and the only requests sent are
\* the authentication requests.
C1_NoStepWithoutAuth ==
    /\ loc.trace # <<>> => \A c \in Range(Clients) : srv.auth[c] = "ok"
    /\ (\E c \in Range(Clients) : srv.auth[c] \in {"http_error", "no_token"}) =>
          /\ MainEnded
          /\ loc.trace = <<>>
          /\ \A i \in 1..Len(calls) : calls[i].kind = "auth"

C1_Witness ==
    /\ pc = "crashed"
    /\ srv.auth["client_1"] = "ok"
    /\ srv.auth["client_2"] = "no_token"
    /\ "MIGRATE_TENANTS" \in loc.flags
    /\ loc.trace = <<>>

\* C2: when an enabled step fails internally, every later enabled step of main's
\* order is still executed.
C2_FailureContained ==
    (MainEnded /\ loc.failed # None) =>
        \A i \in 1..Len(Steps) : StepEnabled(Steps[i], loc.flags) => Started(Steps[i])

C2_Witness ==
    /\ pc = "crashed"
    /\ loc.failed = "roles"
    /\ "MIGRATE_USERS" \in loc.flags
    /\ ~Started("users")

\* C3: dependent steps run strictly after the step they depend on: the category
\* matching and creation is finished before permissions are remapped, the settings step
\* is finished before the roles step starts, and the roles step before the users step.
C3_DependencyOrder ==
    /\ Before(Event("end", "map_categories"), Event("start", "remap_permissions"))
    /\ "MIGRATE_CATEGORIES" \in loc.flags =>
          Before(Event("end", "create_categories"), Event("start", "remap_permissions"))
    /\ StepEnabled("settings", loc.flags) =>
          Before(Event("end", "settings"), Event("start", "roles"))
    /\ StepEnabled("roles", loc.flags) =>
          Before(Event("end", "roles"), Event("start", "users"))
    /\ StepEnabled("settings", loc.flags) =>
          Before(Event("end", "settings"), Event("start", "users"))

C3_Witness ==
    /\ pc = "done"
    /\ loc.flags = {"MIGRATE_CATEGORIES", "MIGRATE_PERMISSIONS", "MIGRATE_ROLES",
                    "MIGRATE_USERS"}
    /\ Started("remap_permissions")
    /\ Started("users")

(***************************************************************************)
(* Helpers shared by the entity steps                                      *)
(***************************************************************************)

\* The sequences over S of length at most n.
SeqsUpTo(S, n) == UNION {[1..k -> S] : k \in 0..n}

\* The subsequence of s whose elements satisfy Test, in order.
RECURSIVE SelectIdx(_, _)
SelectIdx(s, keep) ==
    IF s = <<>> THEN <<>>
    ELSE SelectIdx(SubSeq(s, 1, Len(s) - 1), keep)
         \o (IF Len(s) \in keep THEN <<s[Len(s)]>> ELSE <<>>)

\* dict.update and dict[k] = v on a mapping held as a function.
Update(m, n) == [k \in DOMAIN m \cup DOMAIN n |-> IF k \in DOMAIN n THEN n[k] ELSE m[k]]

Put(m, k, v) == [x \in DOMAIN m \cup {k} |-> IF x = k THEN v ELSE m[x]]

EmptyMap == [x \in {} |-> None]

Call(inst, method, kind, payload) ==
    [inst |-> inst, method |-> method, kind |-> kind, payload |-> payload]

(***************************************************************************)
(* permissions_and_categories.py: migrate_settings                         *)
(***************************************************************************)

\* The longest category list an instance returns.
MaxCats == 2

\* The longest permission list an instance returns.
MaxPerms == 2

\* The natural keys categories are drawn from: a name and a description, which
\* get_categories reads with a default of ''.
CatKeys == {[name |-> "A", description |-> ""], [name |-> "A", description |-> "d"]}

\* Identifiers are assigned by the instance that holds the record: the spaces of the
\* source, of the destination and of the records the destination creates are disjoint.
SrcCatId(i) == <<"src_cat", i>>
DstCatId(i) == <<"dst_cat", i>>
NewCatId(i) == <<"new_cat", i>>

\* The category lists an instance may hold: the i-th record has the i-th identifier.
SrcCategoryLists ==
    {[i \in 1..Len(ks) |-> [id |-> SrcCatId(i), name |-> ks[i].name,
                            description |-> ks[i].description]] :
        ks \in SeqsUpTo(CatKeys, MaxCats)}

DstCategoryLists ==
    {[i \in 1..Len(ks) |-> [id |-> DstCatId(i), name |-> ks[i].name,
                            description |-> ks[i].description]] :
        ks \in SeqsUpTo(CatKeys, MaxCats)}

PermKey(i) == <<"perm_key", i>>

\* A source permission refers to the first or second source category, or to a category
\* the source no longer lists.
PermCategoryRefs == {SrcCatId(1), SrcCatId(2), SrcCatId(0)}

SrcPermissionLists ==
    {[i \in 1..Len(cs) |-> [key |-> PermKey(i), categoryId |-> cs[i]]] :
        cs \in SeqsUpTo(PermCategoryRefs, MaxPerms)}

\* The permission keys the destination may already hold.
DstPermissionKeySets == {{}, {PermKey(1)}}

InitSettings ==
    /\ pc = "ms_get_categories"
    /\ \E mc \in BOOLEAN, mp \in BOOLEAN :
         /\ mc \/ mp
         /\ loc = [migrate_categories |-> mc, migrate_permissions |-> mp]
    /\ calls = <<>>
    /\ srv = [src |-> [categories |-> <<>>, permissions |-> <<>>],
              dst |-> [categories |-> <<>>, permission_keys |-> {},
                       fetch_failed |-> FALSE]]

\* next((dest_cat for dest_cat in destination_categories if name and description are
\* equal), None): the position of the first match in the fetched order, 0 for None.
MatchingDestCat(src_cat, destination_categories) ==
    LET hits == {i \in 1..Len(destination_categories) :
                    /\ destination_categories[i].name = src_cat.name
                    /\ destination_categories[i].description = src_cat.description}
    IN IF hits = {} THEN 0 ELSE CHOOSE i \in hits : \A j \in hits : i <= j

\* Step 2 of migrate_settings: the mapping from source to destination category ids.
MapCategories(source_categories, destination_categories) ==
    LET matched == {i \in 1..Len(source_categories) :
                       MatchingDestCat(source_categories[i], destination_categories) # 0}
    IN [id \in {source_categories[i].id : i \in matched} |->
          LET i == CHOOSE i \in matched : source_categories[i].id = id
          IN destination_categories[
                 MatchingDestCat(source_categories[i], destination_categories)].id]

\* Every source category is sent for creation, matched or not.
CategoriesToCreate_All(source_categories, category_mapping) == source_categories

\* [cat for cat in source_categories if cat['id'] not in category_mapping]
CategoriesToCreate(source_categories, category_mapping) ==
    SelectIdx(source_categories,
              {i \in 1..Len(source_categories) :
                  source_categories[i].id \notin DOMAIN category_mapping})

\* get_categories on both instances, then Step 2. srv records the categories an
\* instance answers with. A failed request is caught in get_categories, which then
\* returns [].
MS_GetCategories ==
    /\ pc = "ms_get_categories"
    /\ \E src_ok \in BOOLEAN, dst_ok \in BOOLEAN,
          sc \in SrcCategoryLists, dc \in DstCategoryLists :
         LET source_categories == IF src_ok THEN sc ELSE <<>>
             destination_categories == IF dst_ok THEN dc ELSE <<>>
         IN /\ srv' = [srv EXCEPT !.src.categories = source_categories,
                                  !.dst.categories = destination_categories,
                                  !.dst.fetch_failed = ~dst_ok]
            /\ loc' = [migrate_categories |-> loc.migrate_categories,
                       migrate_permissions |-> loc.migrate_permissions,
                       source_categories |-> source_categories,
                       destination_categories |-> destination_categories,
                       category_mapping |->
                           MapCategories(source_categories, destination_categories)]
            /\ calls' = calls \o <<Call("src", "GET", "categories", <<>>),
                                   Call("dst", "GET", "categories", <<>>)>>
    /\ pc' = "ms_step3"

\* Step 3: if migrate_categories, create_categories is called when there is something
\* to create.
MS_Step3 ==
    /\ pc = "ms_step3"
    /\ IF loc.migrate_categories
          /\ CategoriesToCreate(loc.source_categories, loc.category_mapping) # <<>>
       THEN /\ loc' = [c \in DOMAIN loc \cup {"categories", "i", "new_category_mapping"} |->
                         CASE c = "categories" ->
                                CategoriesToCreate(loc.source_categories, loc.category_mapping)
                           [] c = "i" -> 1
                           [] c = "new_category_mapping" -> EmptyMap
                           [] OTHER -> loc[c]]
            /\ pc' = "cc_loop"
       ELSE /\ loc' = loc
            /\ pc' = "ms_step4"
    /\ UNCHANGED <<calls, srv>>

\* One pass of create_categories' loop: the POST of one category. An answer of
\* 'already exist' is skipped; any other failure is raised again.
CC_Create ==
    /\ pc = "cc_loop"
    /\ loc.i <= Len(loc.categories)
    /\ LET category == loc.categories[loc.i] IN
         /\ calls' = Append(calls, Call("dst", "POST", "categories",
                                        [name |-> category.name,
                                         description |-> category.description]))
         /\ \E answer \in {"created", "already_exist", "http_error", "connection_error"} :
              CASE answer = "created" ->
                     /\ loc' = [loc EXCEPT !.i = @ + 1,
                                  !.new_category_mapping =
                                      Put(@, category.id, NewCatId(loc.i))]
                     /\ pc' = pc
                [] answer = "already_exist" ->
                     /\ loc' = [loc EXCEPT !.i = @ + 1]
                     /\ pc' = pc
                [] OTHER ->
                     /\ loc' = loc
                     /\ pc' = "raised"
    /\ UNCHANGED srv

\* create_categories returns and category_mapping.update(new_category_mapping).
CC_Return ==
    /\ pc = "cc_loop"
    /\ loc.i > Len(loc.categories)
    /\ loc' = [loc EXCEPT !.category_mapping = Update(@, loc.new_category_mapping)]
    /\ pc' = "ms_step4"
    /\ UNCHANGED <<calls, srv>>

\* The permission keeps the category id of the source.
RemapPermission_Keeps(permission, category_mapping) == permission

\* permission['categoryId'] = dest_category_id
RemapPermission(permission, category_mapping) ==
    [permission EXCEPT !.categoryId = category_mapping[permission.categoryId]]

\* Step 5: the permissions whose category is mapped, each with the mapped category id.
PermissionsToMigrate(source_permissions, category_mapping) ==
    LET mapped == {i \in 1..Len(source_permissions) :
                      source_permissions[i].categoryId \in DOMAIN category_mapping}
        kept == SelectIdx(source_permissions, mapped)
    IN [i \in 1..Len(kept) |-> RemapPermission(kept[i], category_mapping)]

\* Steps 4 and 5: if migrate_permissions, get_permissions(source_client) (which returns
\* [] when the request fails) and the remapping of every permission's categoryId.
MS_Step4 ==
    /\ pc = "ms_step4"
    /\ IF loc.migrate_permissions
       THEN \E ok \in BOOLEAN, sp \in SrcPermissionLists :
              LET source_permissions == IF ok THEN sp ELSE <<>>
                  todo == PermissionsToMigrate(source_permissions, loc.category_mapping)
              IN /\ srv' = [srv EXCEPT !.src.permissions = source_permissions]
                 /\ loc' = [c \in DOMAIN loc \cup {"permissions_to_migrate", "i"} |->
                              CASE c = "permissions_to_migrate" -> todo
                                [] c = "i" -> 0
                                [] OTHER -> loc[c]]
                 /\ calls' = Append(calls, Call("src", "GET", "permissions", <<>>))
                 /\ pc' = IF todo # <<>> THEN "cp_loop" ELSE "ms_return"
       ELSE /\ loc' = loc
            /\ calls' = calls
            /\ srv' = srv
            /\ pc' = "ms_return"

\* create_permissions' batch_size parameter.
BatchSize == 100

\* The payload of one batch: the permissions with a key and a categoryId.
BatchPermissionsData(permissions_batch) ==
    SelectIdx(permissions_batch,
              {i \in 1..Len(permissions_batch) :
                  /\ permissions_batch[i].key # ""
                  /\ permissions_batch[i].categoryId # ""})

\* One pass of create_permissions' loop: the POST of one batch, which reaches a
\* destination holding some permission keys already. An HTTP error is logged; a failure
\* without an answer is raised.
CP_Batch ==
    /\ pc = "cp_loop"
    /\ loc.i < Len(loc.permissions_to_migrate)
    /\ LET last == IF loc.i + BatchSize < Len(loc.permissions_to_migrate)
                   THEN loc.i + BatchSize ELSE Len(loc.permissions_to_migrate)
           permissions_data ==
               BatchPermissionsData(SubSeq(loc.permissions_to_migrate, loc.i + 1, last))
       IN IF permissions_data = <<>>
          THEN /\ calls' = calls
               /\ loc' = [loc EXCEPT !.i = @ + BatchSize]
               /\ pc' = pc
               /\ srv' = srv
          ELSE /\ calls' = Append(calls, Call("dst", "POST", "permissions", permissions_data))
               /\ \E dk \in DstPermissionKeySets :
                    srv' = [srv EXCEPT !.dst.permission_keys = dk]
               /\ \E answer \in {"created", "http_error", "connection_error"} :
                    IF answer = "connection_error"
                    THEN loc' = loc /\ pc' = "raised"
                    ELSE loc' = [loc EXCEPT !.i = @ + BatchSize] /\ pc' = pc

CP_Return ==
    /\ pc = "cp_loop"
    /\ loc.i >= Len(loc.permissions_to_migrate)
    /\ pc' = "ms_return"
    /\ UNCHANGED <<loc, calls, srv>>

\* log("Settings migration completed.")
MS_Return ==
    /\ pc = "ms_return"
    /\ pc' = "returned"
    /\ UNCHANGED <<loc, calls, srv>>

NextSettings ==
    \/ MS_GetCategories
    \/ MS_Step3
    \/ CC_Create
    \/ CC_Return
    \/ MS_Step4
    \/ CP_Batch
    \/ CP_Return
    \/ MS_Return

SpecSettings == InitSettings /\ [][NextSettings]_vars

(***************************************************************************)
(* Claims about migrate_settings                                           *)
(***************************************************************************)

CallsOf(inst, method, kind) ==
    {i \in 1..Len(calls) :
        calls[i].inst = inst /\ calls[i].method = method /\ calls[i].kind = kind}

\* The source permission with key k, as the source instance holds it.
SourcePermission(k) ==
    srv.src.permissions[CHOOSE i \in 1..Len(srv.src.permissions) :
                            srv.src.permissions[i].key = k]

\* C4: every permission in a creation payload carries the destination category id
\* that the category mapping assigns to the permission's source categoryId, and none
\* carries a category id of the source.
C4_PayloadCategoryRemapped ==
    \A c \in CallsOf("dst", "POST", "permissions") :
        \A j \in 1..Len(calls[c].payload) :
            LET p == calls[c].payload[j]
                source_category == SourcePermission(p.key).categoryId
            IN /\ source_category \in DOMAIN loc.category_mapping
               /\ p.categoryId = loc.category_mapping[source_category]
               /\ p.categoryId[1] \in {"dst_cat", "new_cat"}

\* Two permissions are created, one in a category matched in the destination and one
\* in a category created by this run.
C4_Witness ==
    /\ pc = "returned"
    /\ \E c \in CallsOf("dst", "POST", "permissions") :
         /\ Len(calls[c].payload) = 2
         /\ calls[c].payload[1].categoryId[1] = "dst_cat"
         /\ calls[c].payload[2].categoryId[1] = "new_cat"

\* C9: a source permission whose key already exists among the destination's
\* permissions is not included in any permission-creation payload.
C9_ExistingPermissionSkipped ==
    \A c \in CallsOf("dst", "POST", "permissions") :
        \A j \in 1..Len(calls[c].payload) :
            calls[c].payload[j].key \notin srv.dst.permission_keys

C9_Witness ==
    /\ pc = "returned"
    /\ srv.dst.permission_keys = {PermKey(1)}
    /\ \E c \in CallsOf("dst", "POST", "permissions") :
         /\ Len(calls[c].payload) = 2
         /\ calls[c].payload[1].key = PermKey(1)

(***************************************************************************)
(* tenants.py: migrate_tenants                                             *)
(***************************************************************************)

\* The longest tenant list an instance returns.
MaxTenants == 2

TenantId(i) == <<"tenant", i>>

\* A tenant's metadata is absent, a JSON text, or a text json.loads rejects.
MetadataValues == {"", "json", "not_json"}

SrcTenantLists ==
    {[i \in 1..Len(ms) |-> [tenantId |-> TenantId(i), metadata |-> ms[i]]] :
        ms \in SeqsUpTo(MetadataValues, MaxTenants)}

\* The tenants the destination may hold: tenant ids are chosen by the caller, so a
\* destination tenant may carry the id of a source tenant.
DstTenantIdSets == SUBSET {TenantId(i) : i \in 1..MaxTenants}

InitTenants ==
    /\ pc = "mt_get_tenants"
    /\ loc = [success_count |-> 0]
    /\ calls = <<>>
    /\ srv = [dst |-> [tenants |-> {}, created |-> {}, metadata_set |-> {},
                       fetch_failed |-> FALSE]]

\* source_tenants = get_tenants(source_client), which returns [] when the request
\* fails; migrate_tenants returns when the list is empty.
MT_GetTenants ==
    /\ pc = "mt_get_tenants"
    /\ \E ok \in BOOLEAN, st \in SrcTenantLists :
         LET source_tenants == IF ok THEN st ELSE <<>> IN
           /\ loc' = [source_tenants |-> source_tenants, success_count |-> 0]
           /\ pc' = IF source_tenants = <<>> THEN "returned" ELSE "bct_get_tenants"
    /\ calls' = Append(calls, Call("src", "GET", "tenants", <<>>))
    /\ UNCHANGED srv

\* Every source tenant is new.
NewTenants_All(tenants, existing_tenants) == tenants

\* [t for t in tenants if t['tenantId'] not in existing_tenants]
NewTenants(tenants, existing_tenants) ==
    SelectIdx(tenants, {i \in 1..Len(tenants) : tenants[i].tenantId \notin existing_tenants})

\* [t for t in tenants if t['tenantId'] in existing_tenants]
SkippedTenants(tenants, existing_tenants) ==
    SelectIdx(tenants, {i \in 1..Len(tenants) : tenants[i].tenantId \in existing_tenants})

\* bulk_create_tenants: existing_tenants from get_tenants(destination_client), which
\* returns [] when the request fails, then the split into new and skipped tenants.
BCT_GetTenants ==
    /\ pc = "bct_get_tenants"
    /\ \E ok \in BOOLEAN, dt \in DstTenantIdSets :
         LET existing_tenants == IF ok THEN dt ELSE {} IN
           /\ srv' = [srv EXCEPT !.dst.tenants = dt, !.dst.fetch_failed = ~ok]
           /\ loc' = [c \in DOMAIN loc \cup {"existing_tenants", "new_tenants",
                                             "skipped_tenants", "i"} |->
                        CASE c = "existing_tenants" -> existing_tenants
                          [] c = "new_tenants" -> NewTenants(loc.source_tenants, existing_tenants)
                          [] c = "skipped_tenants" ->
                                 SkippedTenants(loc.source_tenants, existing_tenants)
                          [] c = "i" -> 1
                          [] OTHER -> loc[c]]
    /\ calls' = Append(calls, Call("dst", "GET", "tenants", <<>>))
    /\ pc' = "bct_loop"

\* create_tenant for one new tenant: the POST; a failure is logged and swallowed.
BCT_Create ==
    /\ pc = "bct_loop"
    /\ loc.i <= Len(loc.new_tenants)
    /\ LET tenant == loc.new_tenants[loc.i] IN
         /\ calls' = Append(calls, Call("dst", "POST", "tenants",
                                        [tenantId |-> tenant.tenantId]))
         /\ \E answer \in {"created", "failed"} :
              srv' = IF answer = "created"
                     THEN [srv EXCEPT !.dst.tenants = @ \cup {tenant.tenantId},
                                      !.dst.created = @ \cup {tenant.tenantId}]
                     ELSE srv
    /\ loc' = [loc EXCEPT !.i = @ + 1]
    /\ pc' = pc

\* The metadata is a text json.loads accepts.
JsonLoads(metadata) == metadata = "json"

\* [t for t in source_tenants if t.get('metadata')]
TenantsWithMetadata(source_tenants) ==
    SelectIdx(source_tenants,
              {i \in 1..Len(source_tenants) : source_tenants[i].metadata # ""})

\* bulk_create_tenants prints its summary and returns; migrate_tenants goes on to the
\* tenants with metadata.
BCT_Return ==
    /\ pc = "bct_loop"
    /\ loc.i > Len(loc.new_tenants)
    /\ loc' = [c \in DOMAIN loc \cup {"creation_summary", "tenants_with_metadata"} |->
                 CASE c = "creation_summary" ->
                        [total |-> Len(loc.source_tenants),
                         created |-> Len(loc.new_tenants),
                         skipped |-> Len(loc.skipped_tenants)]
                   [] c = "tenants_with_metadata" -> TenantsWithMetadata(loc.source_tenants)
                   [] c = "i" -> 1
                   [] OTHER -> loc[c]]
    /\ pc' = "mt_metadata"
    /\ UNCHANGED <<calls, srv>>

\* One pass of the metadata loop: json.loads, then set_tenant_metadata, whose POST may
\* fail (logged and swallowed), then success_count += 1. A JSONDecodeError skips both.
MT_SetMetadata ==
    /\ pc = "mt_metadata"
    /\ loc.i <= Len(loc.tenants_with_metadata)
    /\ LET tenant == loc.tenants_with_metadata[loc.i] IN
         IF JsonLoads(tenant.metadata)
         THEN /\ calls' = Append(calls, Call("dst", "POST", "tenant_metadata",
                                             [tenantId |-> tenant.tenantId]))
              /\ \E answer \in {"updated", "failed"} :
                   srv' = IF answer = "updated"
                          THEN [srv EXCEPT !.dst.metadata_set = @ \cup {tenant.tenantId}]
                          ELSE srv
              /\ loc' = [loc EXCEPT !.i = @ + 1, !.success_count = @ + 1]
         ELSE /\ calls' = calls
              /\ srv' = srv
              /\ loc' = [loc EXCEPT !.i = @ + 1]
    /\ pc' = pc

\* The metadata summary, when there were tenants with metadata, and the return.
MT_Return ==
    /\ pc = "mt_metadata"
    /\ loc.i > Len(loc.tenants_with_metadata)
    /\ loc' = IF loc.tenants_with_metadata # <<>>
              THEN [c \in DOMAIN loc \cup {"metadata_summary"} |->
                      IF c = "metadata_summary"
                      THEN [total |-> Len(loc.tenants_with_metadata),
                            updated |-> loc.success_count,
                            failed |-> Len(loc.tenants_with_metadata) - loc.success_count]
                      ELSE loc[c]]
              ELSE loc
    /\ pc' = "returned"
    /\ UNCHANGED <<calls, srv>>

NextTenants ==
    \/ MT_GetTenants
    \/ BCT_GetTenants
    \/ BCT_Create
    \/ BCT_Return
    \/ MT_SetMetadata
    \/ MT_Return

SpecTenants == InitTenants /\ [][NextTenants]_vars

\* The tenant step and the settings step, each from its call in main.
SpecNaturalKey == (InitTenants \/ InitSettings) /\ [][NextTenants \/ NextSettings]_vars

(***************************************************************************)
(* Claims about natural keys                                               *)
(***************************************************************************)

\* C8: a source tenant whose tenantId, or a source category whose name and
\* description, is that of a record of the fetched destination collection is never sent
\* in a creation call.
C8_MatchedNeverCreated ==
    /\ \A c \in CallsOf("dst", "POST", "tenants") :
          calls[c].payload.tenantId \notin loc.existing_tenants
    /\ \A c \in CallsOf("dst", "POST", "categories") :
          \A i \in 1..Len(loc.destination_categories) :
              ~ /\ loc.destination_categories[i].name = calls[c].payload.name
                /\ loc.destination_categories[i].description = calls[c].payload.description

\* One of two source categories is in the destination; the other one was created.
C8_Witness ==
    /\ pc = "ms_step4"
    /\ Len(loc.source_categories) = 2
    /\ Len(loc.destination_categories) = 1
    /\ loc.destination_categories[1].name = loc.source_categories[1].name
    /\ loc.destination_categories[1].description = loc.source_categories[1].description
    /\ Cardinality(CallsOf("dst", "POST", "categories")) = 1

\* C13: the tenant step's summaries count only the calls that succeeded: 'Created' is
\* the number of tenants whose creation call succeeded, 'Successfully Updated' the
\* number of tenants whose metadata call succeeded.
C13_SummariesCountSuccesses ==
    /\ "creation_summary" \in DOMAIN loc =>
          loc.creation_summary.created = Cardinality(srv.dst.created)
    /\ "metadata_summary" \in DOMAIN loc =>
          loc.metadata_summary.updated = Cardinality(srv.dst.metadata_set)

\* The creation call of the one new tenant failed, and so did its metadata call; both
\* summaries report one success.
C13_Witness ==
    /\ pc = "returned"
    /\ "metadata_summary" \in DOMAIN loc
    /\ Len(loc.new_tenants) = 1
    /\ srv.dst.created = {}
    /\ srv.dst.metadata_set = {}
    /\ loc.creation_summary.created = 1
    /\ loc.metadata_summary.updated = 1

\* C18: for a source tenant whose tenantId is among the destination's tenants, no
\* creation call and no metadata call is sent.
C18_ExistingTenantUntouched ==
    \A c \in CallsOf("dst", "POST", "tenants") \cup CallsOf("dst", "POST", "tenant_metadata") :
        calls[c].payload.tenantId \notin loc.existing_tenants

\* A source tenant with metadata is in the destination already: it was skipped by the
\* creation loop, and its metadata was sent.
C18_Witness ==
    /\ pc = "returned"
    /\ "skipped_tenants" \in DOMAIN loc
    /\ Len(loc.skipped_tenants) = 1
    /\ CallsOf("dst", "POST", "tenants") = {}
    /\ \E c \in CallsOf("dst", "POST", "tenant_metadata") :
          calls[c].payload.tenantId = loc.skipped_tenants[1].tenantId

(***************************************************************************)
(* roles.py: migrate_roles                                                 *)
(***************************************************************************)

\* The longest role list an instance returns.
MaxRoles == 2

SrcPermId(i) == <<"src_perm", i>>
DstPermId(i) == <<"dst_perm", i>>
SrcRoleId(i) == <<"src_role", i>>
DstRoleId(i) == <<"dst_role", i>>
NewRoleId(i) == <<"new_role", i>>
RoleKey(i) == <<"role_key", i>>

\* The permission lists the source may answer with: the i-th has the i-th key.
SrcRolePermissionLists ==
    {[i \in 1..n |-> [id |-> SrcPermId(i), key |-> PermKey(i)]] : n \in 0..MaxPerms}

\* The permission lists the destination may answer with: identifiers follow the
\* position, keys need not.
DstRolePermissionLists ==
    {[i \in 1..Len(ks) |-> [id |-> DstPermId(i), key |-> ks[i]]] :
        ks \in {<<>>, <<PermKey(1)>>, <<PermKey(2)>>, <<PermKey(2), PermKey(1)>>}}

\* The permission ids a source role may list; SrcPermId(0) is the id of a permission
\* the source does not return.
RolePermissionLists ==
    {<<>>, <<SrcPermId(1)>>, <<SrcPermId(1), SrcPermId(2)>>, <<SrcPermId(0), SrcPermId(1)>>}

\* The role lists the source may answer with: a role belongs to a tenant or to none.
SrcRoleLists ==
    {[i \in 1..Len(rs) |-> [id |-> SrcRoleId(i), key |-> RoleKey(i),
                            tenantId |-> rs[i][1], permissions |-> rs[i][2]]] :
        rs \in SeqsUpTo({"", "tenant"} \X RolePermissionLists, MaxRoles)}

\* The role lists the destination may answer with.
DstRoleLists ==
    {[i \in 1..Len(ks) |-> [id |-> DstRoleId(i), key |-> ks[i], tenantId |-> ""]] :
        ks \in {<<>>, <<RoleKey(1)>>}}

InitRoles ==
    /\ pc = "mr_get"
    /\ loc = [role_id_mapping |-> EmptyMap]
    /\ calls = <<>>
    /\ srv = [src |-> [roles |-> <<>>, permissions |-> <<>>],
              dst |-> [roles |-> <<>>, permissions |-> <<>>, fetch_failed |-> FALSE]]

\* get_roles' split: the roles with a tenantId, and those without.
RolesWithTenant(roles) ==
    SelectIdx(roles, {i \in 1..Len(roles) : roles[i].tenantId # ""})

RolesWithoutTenant(roles) ==
    SelectIdx(roles, {i \in 1..Len(roles) : roles[i].tenantId = ""})

\* {p['key']: p['id'] for p in dest_permissions}: the last permission of a key wins.
PermissionsByKey(dest_permissions) ==
    [k \in {dest_permissions[i].key : i \in 1..Len(dest_permissions)} |->
        LET hits == {i \in 1..Len(dest_permissions) : dest_permissions[i].key = k}
        IN dest_permissions[CHOOSE i \in hits : \A j \in hits : j <= i].id]

\* The source permissions a role's permission ids are found among, in the role's order.
PermissionsData(permissions, source_permissions) ==
    LET found == SelectIdx(permissions,
                    {i \in 1..Len(permissions) :
                        \E j \in 1..Len(source_permissions) :
                            source_permissions[j].id = permissions[i]})
    IN [i \in 1..Len(found) |->
          source_permissions[CHOOSE j \in 1..Len(source_permissions) :
                                 source_permissions[j].id = found[i]]]

\* No source role is filtered out.
IsNewRole_Always(roles, i, dest_role_keys) == TRUE

\* The loop of migrate_roles keeps role i of the merged list when its key is not the
\* key of a destination role and not the key of an earlier role.
IsNewRole(roles, i, dest_role_keys) ==
    /\ roles[i].key \notin dest_role_keys
    /\ \A j \in 1..(i - 1) : roles[j].key # roles[i].key

\* unique_roles_list: the kept roles, each with its permissionsData.
UniqueRoles(roles, dest_role_keys, source_permissions) ==
    LET kept == SelectIdx(roles, {i \in 1..Len(roles) : IsNewRole(roles, i, dest_role_keys)})
    IN [i \in 1..Len(kept) |->
          [id |-> kept[i].id, key |-> kept[i].key, tenantId |-> kept[i].tenantId,
           permissions |-> kept[i].permissions,
           permissionsData |-> PermissionsData(kept[i].permissions, source_permissions)]]

\* migrate_roles up to the call of create_roles: the four requests (each caught, with
\* an empty list on failure) and the filtering of the source roles.
MR_Get ==
    /\ pc = "mr_get"
    /\ \E failed \in SUBSET {"sr", "sp", "dr", "dp"},
          sr \in SrcRoleLists, sp \in SrcRolePermissionLists,
          dr \in DstRoleLists, dp \in DstRolePermissionLists :
         LET source_roles == IF "sr" \in failed THEN <<>> ELSE sr
             source_permissions == IF "sp" \in failed THEN <<>> ELSE sp
             dest_roles == IF "dr" \in failed THEN <<>> ELSE dr
             dest_permissions == IF "dp" \in failed THEN <<>> ELSE dp
             dest_role_keys == {dest_roles[i].key : i \in 1..Len(dest_roles)}
             unique_roles_list ==
                 UniqueRoles(RolesWithTenant(source_roles) \o RolesWithoutTenant(source_roles),
                             dest_role_keys, source_permissions)
         IN /\ srv' = [src |-> [roles |-> source_roles, permissions |-> source_permissions],
                       dst |-> [roles |-> dest_roles, permissions |-> dest_permissions,
                                fetch_failed |-> "dr" \in failed]]
            /\ loc' = [dest_permissions |-> dest_permissions,
                       dest_permissions_by_key |-> PermissionsByKey(dest_permissions),
                       dest_role_keys |-> dest_role_keys,
                       unique_roles_list |-> unique_roles_list,
                       roles_with_tenant |-> RolesWithTenant(unique_roles_list),
                       roles_without_tenant |-> RolesWithoutTenant(unique_roles_list),
                       role_id_mapping |-> EmptyMap,
                       i |-> 1]
            /\ pc' = IF unique_roles_list # <<>> THEN "cr_batch" ELSE "returned"
    /\ calls' = calls \o <<Call("src", "GET", "roles", <<>>),
                           Call("src", "GET", "permissions", <<>>),
                           Call("dst", "GET", "roles", <<>>),
                           Call("dst", "GET", "permissions", <<>>)>>

\* bool(e.response) in `if e.response:`: requests.Response.__bool__ is Response.ok,
\* which is False for the 4xx and 5xx answers raise_for_status raises for.
ResponseIsTruthy(answer) == answer \notin {"already_exist", "http_error"}

\* What the except clauses of create_roles do with a failed request: skip it when the
\* answer is truthy and says 'already exist', else raise.
Reraised(answer) ==
    CASE answer = "connection_error" -> TRUE
      [] answer \in {"already_exist", "http_error"} ->
             ~(ResponseIsTruthy(answer) /\ answer = "already_exist")
      [] OTHER -> FALSE

RoleData(role) == [key |-> role.key, tenantId |-> role.tenantId]

\* create_roles up to its loop: get_permissions(client), then one POST of all the
\* roles without a tenant (of an empty list when there is none); the created roles are
\* paired with the sent ones in order.
CR_Batch ==
    /\ pc = "cr_batch"
    /\ calls' = calls \o <<Call("dst", "GET", "permissions", <<>>),
                           Call("dst", "POST", "roles",
                                [i \in 1..Len(loc.roles_without_tenant) |->
                                    RoleData(loc.roles_without_tenant[i])])>>
    /\ \E answer \in {"created", "already_exist", "http_error", "connection_error"} :
         IF answer = "created"
         THEN /\ loc' = [loc EXCEPT !.role_id_mapping =
                           [id \in {loc.roles_without_tenant[i].id :
                                       i \in 1..Len(loc.roles_without_tenant)} |->
                              NewRoleId(CHOOSE i \in 1..Len(loc.roles_without_tenant) :
                                            loc.roles_without_tenant[i].id = id)],
                         !.i = 1]
              /\ pc' = "cr_loop"
         ELSE /\ loc' = loc
              /\ pc' = IF Reraised(answer) THEN "raised" ELSE "cr_loop"
    /\ UNCHANGED srv

\* One pass of create_roles' loop: the POST of one role with a tenant.
CR_TenantRole ==
    /\ pc = "cr_loop"
    /\ loc.i <= Len(loc.roles_with_tenant)
    /\ LET role == loc.roles_with_tenant[loc.i] IN
         /\ calls' = Append(calls, Call("dst", "POST", "roles", <<RoleData(role)>>))
         /\ \E answer \in {"created", "already_exist", "http_error", "connection_error"} :
              IF answer = "created"
              THEN /\ loc' = [loc EXCEPT
                                !.role_id_mapping =
                                    Put(@, role.id,
                                        NewRoleId(Len(loc.roles_without_tenant) + loc.i)),
                                !.i = @ + 1]
                   /\ pc' = pc
              ELSE IF Reraised(answer)
                   THEN loc' = loc /\ pc' = "raised"
                   ELSE loc' = [loc EXCEPT !.i = @ + 1] /\ pc' = pc
    /\ UNCHANGED srv

\* create_roles returns role_id_mapping; assign_permissions_to_roles is called.
CR_Return ==
    /\ pc = "cr_loop"
    /\ loc.i > Len(loc.roles_with_tenant)
    /\ loc' = [loc EXCEPT !.i = 1]
    /\ pc' = "apr_loop"
    /\ UNCHANGED <<calls, srv>>

\* What the except clauses of assign_permissions_to_roles do with a failed request:
\* log it when the answer is truthy, else raise.
AssignReraised(answer) ==
    CASE answer = "connection_error" -> TRUE
      [] answer = "http_error" -> ~ResponseIsTruthy(answer)
      [] OTHER -> FALSE

\* Every permission of the role is sent under the id the source gave it.
PermissionIds_Unmapped(role, dest_permissions_by_key) == role.permissions

\* permission_ids of one role: for each permission id found in permissionsData, the id
\* of the destination permission of the same key, when there is one.
PermissionIds(role, dest_permissions_by_key) ==
    LET resolved == SelectIdx(role.permissions,
                       {i \in 1..Len(role.permissions) :
                           \E j \in 1..Len(role.permissionsData) :
                               /\ role.permissionsData[j].id = role.permissions[i]
                               /\ role.permissionsData[j].key \in DOMAIN dest_permissions_by_key})
    IN [i \in 1..Len(resolved) |->
          dest_permissions_by_key[
              role.permissionsData[CHOOSE j \in 1..Len(role.permissionsData) :
                                       role.permissionsData[j].id = resolved[i]].key]]

\* One pass of assign_permissions_to_roles' loop: a role without a destination id is
\* skipped, so is a role without permission ids; else the PUT of the permission ids.
APR_Assign ==
    /\ pc = "apr_loop"
    /\ loc.i <= Len(loc.unique_roles_list)
    /\ LET role == loc.unique_roles_list[loc.i]
           permission_ids == PermissionIds(role, loc.dest_permissions_by_key)
       IN IF role.id \in DOMAIN loc.role_id_mapping /\ permission_ids # <<>>
          THEN /\ calls' = Append(calls, Call("dst", "PUT", "role_permissions",
                                              [role_id |-> loc.role_id_mapping[role.id],
                                               role_key |-> role.key,
                                               permissionIds |-> permission_ids]))
               /\ \E answer \in {"assigned", "http_error", "connection_error"} :
                    IF AssignReraised(answer)
                    THEN loc' = loc /\ pc' = "raised"
                    ELSE loc' = [loc EXCEPT !.i = @ + 1] /\ pc' = pc
          ELSE /\ calls' = calls
               /\ loc' = [loc EXCEPT !.i = @ + 1]
               /\ pc' = pc
    /\ UNCHANGED srv

\* log("Roles migration completed.")
APR_Return ==
    /\ pc = "apr_loop"
    /\ loc.i > Len(loc.unique_roles_list)
    /\ pc' = "returned"
    /\ UNCHANGED <<loc, calls, srv>>

NextRoles ==
    \/ MR_Get
    \/ CR_Batch
    \/ CR_TenantRole
    \/ CR_Return
    \/ APR_Assign
    \/ APR_Return

SpecRoles == InitRoles /\ [][NextRoles]_vars

(***************************************************************************)
(* users.py: migrate_users, create_users_in_destination                    *)
(***************************************************************************)

\* The most rows user_migration_data.csv has.
MaxUsers == 2

RoleName(i) == <<"role_name", i>>
Email(i) == <<"email", i>>

\* What get_roles(source_client, split=False) may return: the i-th role has the i-th
\* name.
SrcNamedRoleLists ==
    {[i \in 1..n |-> [id |-> SrcRoleId(i), name |-> RoleName(i)]] : n \in 0..MaxRoles}

\* What get_roles(destination_client, split=False) may return: two roles may share a
\* name.
DstNamedRoleLists ==
    {[i \in 1..Len(ns) |-> [id |-> DstRoleId(i), name |-> ns[i]]] :
        ns \in SeqsUpTo({RoleName(1), RoleName(2)}, MaxRoles)}

\* The role ids the source may report for one user; SrcRoleId(0) is the id of a role
\* the source does not list.
UserRoleIdLists ==
    {<<>>, <<SrcRoleId(1)>>, <<SrcRoleId(1), SrcRoleId(2)>>, <<SrcRoleId(0), SrcRoleId(1)>>}

\* The None create_final_csv returns when the input file is missing.
NoDataFrame == [is_none |-> TRUE, rows |-> <<>>]

\* What create_final_csv may return: None, or the rows of the input file.
DataFrames ==
    {NoDataFrame} \cup
    {[is_none |-> FALSE, rows |-> [i \in 1..n |-> [email |-> Email(i)]]] : n \in 0..MaxUsers}

InitUsers ==
    /\ pc = "mu_start"
    /\ \E migrate_users_flag \in BOOLEAN, migrate_user_roles \in BOOLEAN :
         /\ migrate_users_flag \/ migrate_user_roles
         /\ loc = [migrate_users_flag |-> migrate_users_flag,
                   migrate_user_roles |-> migrate_user_roles]
    /\ calls = <<>>
    /\ srv = [src |-> [roles |-> <<>>, user_roles |-> EmptyMap], dst |-> [roles |-> <<>>]]

\* {dest_role['name']: dest_role['id'] for dest_role in dest_roles}: the last role of
\* a name wins.
RoleNameToDestId(dest_roles) ==
    [n \in {dest_roles[i].name : i \in 1..Len(dest_roles)} |->
        LET hits == {i \in 1..Len(dest_roles) : dest_roles[i].name = n}
        IN dest_roles[CHOOSE i \in hits : \A j \in hits : j <= i].id]

\* {src_role['id']: role_name_to_dest_id.get(src_role['name']) for src_role in
\* source_roles if src_role['name'] in role_name_to_dest_id}: the last role of an id
\* wins.
RoleIdMapping(source_roles, role_name_to_dest_id) ==
    LET mapped == {i \in 1..Len(source_roles) :
                      source_roles[i].name \in DOMAIN role_name_to_dest_id}
    IN [id \in {source_roles[i].id : i \in mapped} |->
          LET hits == {i \in mapped : source_roles[i].id = id}
          IN role_name_to_dest_id[source_roles[CHOOSE i \in hits :
                                                   \A j \in hits : j <= i].name]]

\* migrate_users' guard, create_final_csv, and with migrate_user_roles the two
\* get_roles calls and the two dictionaries.  With no input file df is None, and
\* df.iterrows() or, without migrate_user_roles, df.columns raises AttributeError.
CU_Start ==
    /\ pc = "mu_start"
    /\ loc.migrate_users_flag \/ loc.migrate_user_roles
    /\ \E df \in DataFrames, failed \in SUBSET {"sr", "dr"},
          sr \in SrcNamedRoleLists, dr \in DstNamedRoleLists :
         LET source_roles == IF "sr" \in failed THEN <<>> ELSE sr
             dest_roles == IF "dr" \in failed THEN <<>> ELSE dr
             role_name_to_dest_id == RoleNameToDestId(dest_roles)
         IN IF loc.migrate_user_roles
            THEN /\ calls' = calls \o <<Call("src", "GET", "roles", <<>>),
                                        Call("dst", "GET", "roles", <<>>)>>
                 /\ srv' = [src |-> [roles |-> source_roles, user_roles |-> EmptyMap],
                            dst |-> [roles |-> dest_roles]]
                 /\ loc' = [migrate_users_flag |-> loc.migrate_users_flag,
                            migrate_user_roles |-> loc.migrate_user_roles,
                            df |-> df,
                            role_id_mapping |->
                                RoleIdMapping(source_roles, role_name_to_dest_id),
                            roles_for_csv |-> <<>>]
                 /\ pc' = IF df.is_none THEN "raised" ELSE "cu_loop"
            ELSE /\ failed = {} /\ sr = <<>> /\ dr = <<>>
                 /\ UNCHANGED <<calls, srv>>
                 /\ loc' = [migrate_users_flag |-> loc.migrate_users_flag,
                            migrate_user_roles |-> loc.migrate_user_roles,
                            df |-> df]
                 /\ pc' = IF df.is_none THEN "raised" ELSE "cu_finalize"

\* Every role id of the user is looked up; an id without a mapping gives None.
TranslatedRoleIds_KeepsNone(source_role_ids, role_id_mapping) ==
    [i \in 1..Len(source_role_ids) |->
        IF source_role_ids[i] \in DOMAIN role_id_mapping
        THEN role_id_mapping[source_role_ids[i]]
        ELSE <<None, 0>>]

\* [role_id_mapping.get(role_id) for role_id in source_role_ids
\*  if role_id_mapping.get(role_id)]
TranslatedRoleIds(source_role_ids, role_id_mapping) ==
    LET mapped == SelectIdx(source_role_ids,
                     {i \in 1..Len(source_role_ids) :
                         source_role_ids[i] \in DOMAIN role_id_mapping})
    IN [i \in 1..Len(mapped) |-> role_id_mapping[mapped[i]]]

\* One pass of the loop over df.iterrows(): get_user_id_by_email (None when the
\* request fails or finds nobody), then get_user_roles ([] when the request fails)
\* and the translation.  roles_string is kept as the sequence "|".join is applied to.
CU_Row ==
    /\ pc = "cu_loop"
    /\ Len(loc.roles_for_csv) < Len(loc.df.rows)
    /\ LET email == loc.df.rows[Len(loc.roles_for_csv) + 1].email IN
       \E user \in {"found", "not_found", "failed"} :
         IF user = "found"
         THEN \E roles_ok \in BOOLEAN, ids \in UserRoleIdLists :
                LET source_role_ids == IF roles_ok THEN ids ELSE <<>> IN
                /\ calls' = calls \o <<Call("src", "GET", "user", email),
                                       Call("src", "GET", "user_roles", email)>>
                /\ srv' = [srv EXCEPT !.src.user_roles = Put(@, email, source_role_ids)]
                /\ loc' = [loc EXCEPT !.roles_for_csv =
                             Append(@, TranslatedRoleIds(source_role_ids,
                                                         loc.role_id_mapping))]
         ELSE /\ calls' = Append(calls, Call("src", "GET", "user", email))
              /\ srv' = [srv EXCEPT !.src.user_roles = Put(@, email, <<>>)]
              /\ loc' = [loc EXCEPT !.roles_for_csv = Append(@, <<>>)]
    /\ pc' = pc

\* df["roleIds"] = roles_for_csv
CU_EndLoop ==
    /\ pc = "cu_loop"
    /\ Len(loc.roles_for_csv) = Len(loc.df.rows)
    /\ pc' = "cu_finalize"
    /\ UNCHANGED <<loc, calls, srv>>

\* finalize_csv and initiate_csv_migration: the POST of the file; a failed request is
\* raised again.
CU_Finalize ==
    /\ pc = "cu_finalize"
    /\ calls' = Append(calls,
                  Call("dst", "POST", "csv",
                       [i \in 1..Len(loc.df.rows) |->
                          IF loc.migrate_user_roles
                          THEN [email |-> loc.df.rows[i].email,
                                roleIds |-> loc.roles_for_csv[i]]
                          ELSE [email |-> loc.df.rows[i].email]]))
    /\ \E answer \in {"created", "http_error", "connection_error"} :
         pc' = IF answer = "created" THEN "returned" ELSE "raised"
    /\ UNCHANGED <<loc, srv>>

NextUsers ==
    \/ CU_Start
    \/ CU_Row
    \/ CU_EndLoop
    \/ CU_Finalize

SpecUsers == InitUsers /\ [][NextUsers]_vars

\* migrate_roles or migrate_users, each from its start.
SpecReferences == (InitRoles \/ InitUsers) /\ [][NextRoles \/ NextUsers]_vars

(***************************************************************************)
(* Claims about migrate_roles and create_users_in_destination              *)
(***************************************************************************)

\* C5: every permission id in a permission-assignment payload is the id of a
\* permission the destination returned.
C5_AssignedIdsAreDestinationIds ==
    \A c \in CallsOf("dst", "PUT", "role_permissions") :
        \A i \in 1..Len(calls[c].payload.permissionIds) :
            \E j \in 1..Len(srv.dst.permissions) :
                srv.dst.permissions[j].id = calls[c].payload.permissionIds[i]

\* A created role with two permissions in the source is assigned the two destination
\* permissions of the same keys, whose ids are in the other order.
C5_Witness ==
    /\ pc = "returned"
    /\ Len(srv.dst.permissions) = 2
    /\ \E c \in CallsOf("dst", "PUT", "role_permissions") :
         /\ calls[c].payload.role_id[1] = "new_role"
         /\ calls[c].payload.permissionIds = <<DstPermId(2), DstPermId(1)>>

\* The source role of key k, as the source instance holds it.
SourceRole(k) ==
    srv.src.roles[CHOOSE i \in 1..Len(srv.src.roles) : srv.src.roles[i].key = k]

\* The source permission of this id has a key, and the destination has a permission
\* of that key.
PermissionResolvable(id) ==
    \E i \in 1..Len(srv.src.permissions), j \in 1..Len(srv.dst.permissions) :
        /\ srv.src.permissions[i].id = id
        /\ srv.dst.permissions[j].key = srv.src.permissions[i].key

\* The source role of this id has a name, and the destination has a role of that name.
RoleResolvable(id) ==
    \E i \in 1..Len(srv.src.roles), j \in 1..Len(srv.dst.roles) :
        /\ srv.src.roles[i].id = id
        /\ srv.dst.roles[j].name = srv.src.roles[i].name

\* A payload holds one destination id for each resolvable reference and nothing else;
\* the run goes on to the records after one with an unresolvable reference.
C6_Payloads ==
    /\ \A c \in CallsOf("dst", "PUT", "role_permissions") :
          LET sent == calls[c].payload.permissionIds
              refs == SourceRole(calls[c].payload.role_key).permissions
          IN /\ Len(sent) = Cardinality({i \in 1..Len(refs) : PermissionResolvable(refs[i])})
             /\ \A i \in 1..Len(sent) : sent[i][1] = "dst_perm"
    /\ (pc = "returned" /\ "unique_roles_list" \in DOMAIN loc) =>
          \A i \in 1..Len(loc.unique_roles_list) :
              (\E k \in 1..Len(loc.unique_roles_list[i].permissions) :
                   PermissionResolvable(loc.unique_roles_list[i].permissions[k]))
              => \E c \in CallsOf("dst", "PUT", "role_permissions") :
                     calls[c].payload.role_key = loc.unique_roles_list[i].key
    /\ \A c \in CallsOf("dst", "POST", "csv") :
          /\ Len(calls[c].payload) = Len(loc.df.rows)
          /\ \A r \in 1..Len(calls[c].payload) :
                "roleIds" \in DOMAIN calls[c].payload[r] =>
                    LET sent == calls[c].payload[r].roleIds
                        refs == srv.src.user_roles[calls[c].payload[r].email]
                    IN /\ Len(sent) =
                              Cardinality({i \in 1..Len(refs) : RoleResolvable(refs[i])})
                       /\ \A i \in 1..Len(sent) : sent[i][1] = "dst_role"

\* A step raises only when its create or update request failed, or when there is no
\* input file.
C6_RaisesOnlyOnFailure ==
    pc' = "raised" =>
        \/ Len(calls') > Len(calls) /\ calls'[Len(calls')].method # "GET"
        \/ "df" \in DOMAIN loc' /\ loc'.df.is_none

\* C6: a role's permission whose key has no destination permission, and a user's role
\* id without an entry in the role mapping, is left out of the payload; the remaining
\* references and records are processed, and nothing is raised for it.
C6_UnresolvedDropped == [](C6_Payloads) /\ [][C6_RaisesOnlyOnFailure]_vars

\* The first user has a role the source does not list and one the destination has; the
\* second user, processed after it, has two roles the destination has.
C6_Witness ==
    /\ pc = "returned"
    /\ "migrate_user_roles" \in DOMAIN loc
    /\ loc.migrate_user_roles
    /\ \E c \in CallsOf("dst", "POST", "csv") :
         /\ Len(calls[c].payload) = 2
         /\ srv.src.user_roles[Email(1)] = <<SrcRoleId(0), SrcRoleId(1)>>
         /\ Len(calls[c].payload[1].roleIds) = 1
         /\ srv.src.user_roles[Email(2)] = <<SrcRoleId(1), SrcRoleId(2)>>
         /\ Len(calls[c].payload[2].roleIds) = 2

MaxApps == 2

SrcAppId(i) == <<"src_app", i>>
DstAppId(i) == <<"dst_app", i>>
NewAppId(i) == <<"new_app", i>>
AppName(i) == <<"app_name", i>>

\* The application lists the source may hold: any of the applications may be marked
\* as the default one.
SrcApplicationLists ==
    {[i \in 1..Len(ds) |-> [id |-> SrcAppId(i), name |-> AppName(i), isDefault |-> ds[i]]] :
        ds \in SeqsUpTo(BOOLEAN, MaxApps)}

\* The application lists the destination may hold before the first run.
DstApplicationLists ==
    {<<>>, <<[id |-> DstAppId(1), name |-> AppName(0), isDefault |-> TRUE]>>}

\* What the platform may answer to one request: success, 'too many requests', or
\* any other failure (an error status, or no answer at all).
Answers == {"ok", "429", "error"}

\* The request is sent once, whatever the answer.
Attempts_NoRetry(first, second) == <<first>>

\* make_request_with_rate_limiting: the answers to the requests it sends.  After a
\* first answer of 429 it sleeps and sends the request a second time.
Attempts(first, second) == IF first = "429" THEN <<first, second>> ELSE <<first>>

\* raise_for_status() on the last response: the call returns it, or raises.
Succeeded(answers) == answers[Len(answers)] = "ok"

\* The requests of one call of make_request_with_rate_limiting, one for each answer.
Requests(call, answers) == [k \in 1..Len(answers) |-> call]

InitApplications ==
    /\ pc = "ma_get"
    /\ loc = [run |-> 1, all_succeeded |-> TRUE,
              first_run_succeeded |-> FALSE, first_run_calls |-> 0]
    /\ calls = <<>>
    /\ \E sa \in SrcApplicationLists, da \in DstApplicationLists :
         srv = [src |-> [applications |-> sa],
                dst |-> [applications |-> da, created |-> 0]]

\* The loop over source_applications: source_default_app is the last application
\* with isDefault, given by its position (0 for None).
SourceDefaultApp(source_applications) ==
    LET defaults == {i \in 1..Len(source_applications) : source_applications[i].isDefault}
    IN IF defaults = {} THEN 0 ELSE CHOOSE i \in defaults : \A j \in defaults : j <= i

\* Every source application is taken as a non-default one.
NonDefaultApps_All(source_applications) == source_applications

\* non_default_apps: the source applications without isDefault, in the source's order.
NonDefaultApps(source_applications) ==
    SelectIdx(source_applications,
              {i \in 1..Len(source_applications) : ~source_applications[i].isDefault})

\* migrate_applications up to step 1: the two get_applications calls, each with [] on
\* failure, and the return when the source has no application.
MA_Get ==
    /\ pc = "ma_get"
    /\ \E s1 \in Answers, s2 \in Answers, d1 \in Answers, d2 \in Answers :
         LET src_answers == Attempts(s1, s2)
             dst_answers == Attempts(d1, d2)
             source_applications ==
                 IF Succeeded(src_answers) THEN srv.src.applications ELSE <<>>
             dest_applications ==
                 IF Succeeded(dst_answers) THEN srv.dst.applications ELSE <<>>
         IN IF source_applications = <<>>
            THEN /\ d1 = "ok" /\ d2 = "ok"
                 /\ calls' = calls \o Requests(Call("src", "GET", "applications", <<>>),
                                               src_answers)
                 /\ loc' = [loc EXCEPT !.all_succeeded = @ /\ src_answers = <<"ok">>]
                 /\ pc' = "returned"
            ELSE /\ calls' = calls
                              \o Requests(Call("src", "GET", "applications", <<>>),
                                          src_answers)
                              \o Requests(Call("dst", "GET", "applications", <<>>),
                                          dst_answers)
                 /\ loc' = [run |-> loc.run,
                            all_succeeded |-> /\ loc.all_succeeded
                                              /\ src_answers = <<"ok">>
                                              /\ dst_answers = <<"ok">>,
                            first_run_succeeded |-> loc.first_run_succeeded,
                            first_run_calls |-> loc.first_run_calls,
                            source_applications |-> source_applications,
                            source_default_app |-> SourceDefaultApp(source_applications),
                            non_default_apps |->
                                NonDefaultApps(source_applications),
                            dest_applications |-> dest_applications,
                            created_count |-> 0,
                            failed_count |-> 0,
                            results |-> <<>>,
                            i |-> 1]
                 /\ pc' = "ma_step1"
    /\ UNCHANGED srv

\* create_application: the POST of the application; the destination keeps what it
\* accepts, under a new id.  The result is None when the request fails; loc.results
\* keeps the answers to each call of create_application.
CreateApplication(app, answers) ==
    /\ calls' = calls \o Requests(Call("dst", "POST", "applications",
                                       [name |-> app.name, isDefault |-> app.isDefault]),
                                  answers)
    /\ IF Succeeded(answers)
       THEN /\ srv' = [srv EXCEPT
                         !.dst.applications =
                             Append(@, [id |-> NewAppId(srv.dst.created + 1),
                                        name |-> app.name, isDefault |-> app.isDefault]),
                         !.dst.created = @ + 1]
            /\ loc' = [loc EXCEPT !.created_count = @ + 1,
                                  !.results = Append(@, answers),
                                  !.all_succeeded = @ /\ answers = <<"ok">>,
                                  !.i = @ + 1]
       ELSE /\ srv' = srv
            /\ loc' = [loc EXCEPT !.failed_count = @ + 1,
                                  !.results = Append(@, answers),
                                  !.all_succeeded = FALSE,
                                  !.i = @ + 1]

\* One pass of step 1's loop.
MA_CreateNonDefault ==
    /\ pc = "ma_step1"
    /\ loc.i <= Len(loc.non_default_apps)
    /\ \E first \in Answers, second \in Answers :
         CreateApplication(loc.non_default_apps[loc.i], Attempts(first, second))
    /\ pc' = pc

\* The end of step 1 and the test of step 2.
MA_Step2 ==
    /\ pc = "ma_step1"
    /\ loc.i > Len(loc.non_default_apps)
    /\ loc' = [loc EXCEPT !.i = 1]
    /\ pc' = IF loc.dest_applications # <<>> /\ loc.source_default_app # 0
             THEN "ma_step2"
             ELSE "ma_step3"
    /\ UNCHANGED <<calls, srv>>

\* One pass of step 2's loop: delete_application of an application fetched before
\* step 1; a failure is logged.
MA_Delete ==
    /\ pc = "ma_step2"
    /\ loc.i <= Len(loc.dest_applications)
    /\ LET app == loc.dest_applications[loc.i] IN
       \E first \in Answers, second \in Answers :
         LET answers == Attempts(first, second) IN
         /\ calls' = calls \o Requests(Call("dst", "DELETE", "applications", app.id),
                                       answers)
         /\ srv' = IF Succeeded(answers)
                   THEN [srv EXCEPT !.dst.applications =
                           SelectIdx(@, {j \in 1..Len(@) : @[j].id # app.id})]
                   ELSE srv
         /\ loc' = [loc EXCEPT !.i = @ + 1, !.all_succeeded = @ /\ answers = <<"ok">>]
    /\ pc' = pc

\* The end of step 2.
MA_Step3 ==
    /\ pc = "ma_step2"
    /\ loc.i > Len(loc.dest_applications)
    /\ pc' = "ma_step3"
    /\ UNCHANGED <<loc, calls, srv>>

\* Step 3 and the final summary: the source default application, when there is one,
\* is created.
MA_CreateDefault ==
    /\ pc = "ma_step3"
    /\ IF loc.source_default_app # 0
       THEN \E first \in Answers, second \in Answers :
              CreateApplication(loc.source_applications[loc.source_default_app],
                                Attempts(first, second))
       ELSE UNCHANGED <<loc, calls, srv>>
    /\ pc' = "returned"

\* The migration is run a second time, directly after a first run in which every
\* request was answered with success, against the source and the destination as the
\* first run left them.
MA_RunAgain ==
    /\ pc = "returned"
    /\ "run" \in DOMAIN loc
    /\ loc.run = 1
    /\ loc.all_succeeded
    /\ loc' = [run |-> 2, all_succeeded |-> TRUE,
               first_run_succeeded |-> loc.all_succeeded,
               first_run_calls |-> Len(calls)]
    /\ pc' = "ma_get"
    /\ UNCHANGED <<calls, srv>>

NextApplications ==
    \/ MA_Get
    \/ MA_CreateNonDefault
    \/ MA_Step2
    \/ MA_Delete
    \/ MA_Step3
    \/ MA_CreateDefault
    \/ MA_RunAgain

SpecApplications == InitApplications /\ [][NextApplications]_vars

\* C10: in a second run, made directly after a first run in which every call
\* succeeded, no application-creation call is issued.
C10_SecondRunCreatesNothing ==
    (loc.run = 2 /\ loc.first_run_succeeded) =>
        \A c \in CallsOf("dst", "POST", "applications") : c <= loc.first_run_calls

\* The source has one application, not the default one, and the destination none; the
\* first run created it and every call succeeded.  The second run has fetched it from
\* the destination and is done.
C10_Witness ==
    /\ pc = "returned"
    /\ loc.run = 2
    /\ loc.first_run_succeeded
    /\ Len(srv.src.applications) = 1
    /\ "dest_applications" \in DOMAIN loc
    /\ Len(loc.dest_applications) = 1
    /\ loc.dest_applications[1].name = srv.src.applications[1].name
    /\ Cardinality(CallsOf("dst", "POST", "applications")) = 2

\* The application-creation requests of the current run.
CreationRequests ==
    {c \in CallsOf("dst", "POST", "applications") : c > loc.first_run_calls}

\* C11: an application-creation request answered with 429 is sent a second time and
\* never a third; when the second answer is 429 too the application is counted in
\* failed_count, and the loop goes on to the next application.
C11_RetriedExactlyOnce ==
    "results" \in DOMAIN loc =>
        /\ \A k \in 1..Len(loc.results) :
              Len(loc.results[k]) = IF loc.results[k][1] = "429" THEN 2 ELSE 1
        /\ Cardinality(CreationRequests) =
              Cardinality({kj \in (1..Len(loc.results)) \X (1..2) :
                              kj[2] <= Len(loc.results[kj[1]])})
        /\ loc.failed_count =
              Cardinality({k \in 1..Len(loc.results) : ~Succeeded(loc.results[k])})
        /\ loc.created_count + loc.failed_count = Len(loc.results)
        /\ pc = "returned" =>
              Len(loc.results) = Len(loc.non_default_apps)
                                 + (IF loc.source_default_app # 0 THEN 1 ELSE 0)

\* The first of two applications was answered 429 twice: two requests were sent for it
\* and it is counted as failed; the second one was created after it.
C11_Witness ==
    /\ pc = "returned"
    /\ "results" \in DOMAIN loc
    /\ loc.results = <<<<"429", "429">>, <<"ok">>>>
    /\ loc.failed_count = 1
    /\ loc.created_count = 1
    /\ Cardinality(CreationRequests) = 3

(***************************************************************************)
(* Claims about the creation loops                                         *)
(***************************************************************************)

\* The settings step or the roles step, each from its call in main.
SpecCreationLoops == (InitSettings \/ InitRoles) /\ [][NextSettings \/ NextRoles]_vars

\* The last request sent is the creation of one category, or of one role of a tenant.
LastCallCreatesOneRecord ==
    /\ calls # <<>>
    /\ LET last == calls[Len(calls)] IN
         /\ last.inst = "dst"
         /\ last.method = "POST"
         /\ \/ last.kind = "categories"
            \/ /\ last.kind = "roles"
               /\ Len(last.payload) = 1
               /\ last.payload[1].tenantId # ""

\* C12: the failure of the creation of one category, or of one role of a tenant, is
\* not raised out of the creation loop.
C12_CreationFailureContained == ~(pc = "raised" /\ LastCallCreatesOneRecord)

\* The creation of the first of two categories failed and was raised: no request was
\* sent for the second one.
C12_Witness ==
    /\ pc = "raised"
    /\ "categories" \in DOMAIN loc
    /\ Len(loc.categories) = 2
    /\ Cardinality(CallsOf("dst", "POST", "categories")) = 1
    /\ LastCallCreatesOneRecord

(***************************************************************************)
(* Claims about the order of migrate_applications' calls                   *)
(***************************************************************************)

\* The requests of the current run that change the destination.
MutatingRequests ==
    {c \in CallsOf("dst", "POST", "applications") \cup CallsOf("dst", "DELETE", "applications") :
        c > loc.first_run_calls}

\* The request creates an application that is none of the source's: a placeholder.
CreatesPlaceholder(c) ==
    /\ calls[c].method = "POST"
    /\ \A i \in 1..Len(srv.src.applications) :
          srv.src.applications[i].name # calls[c].payload.name

\* C14: the first request that changes the destination creates a temporary placeholder
\* application.
C14_PlaceholderFirst ==
    \A c \in MutatingRequests :
        (\A d \in MutatingRequests : c <= d) => CreatesPlaceholder(c)

\* The first run is done; its first request that changed the destination is the
\* creation of a source application.
C14_Witness ==
    /\ pc = "returned"
    /\ loc.run = 1
    /\ \E c \in MutatingRequests :
         /\ \A d \in MutatingRequests : c <= d
         /\ calls[c].method = "POST"
         /\ calls[c].payload.name = srv.src.applications[1].name

\* The source has exactly one default application.
OneSourceDefault ==
    Cardinality({i \in 1..Len(srv.src.applications) :
                    srv.src.applications[i].isDefault}) = 1

\* C15: with exactly one default application in the source, every creation of a
\* non-default application comes before every deletion, and every deletion before the
\* creation of the default application; when every call succeeded, each application
\* fetched from the destination was deleted and the destination ends with as many
\* applications as the source has.
C15_OrderAndFinalCount ==
    OneSourceDefault =>
        /\ \A c \in MutatingRequests, d \in MutatingRequests :
              LET rank(x) == CASE calls[x].method = "DELETE" -> 2
                               [] calls[x].payload.isDefault -> 3
                               [] OTHER -> 1
              IN c < d => rank(c) <= rank(d)
        /\ (pc = "returned" /\ loc.all_succeeded /\ "dest_applications" \in DOMAIN loc) =>
              /\ \A i \in 1..Len(loc.dest_applications) :
                    \E c \in MutatingRequests :
                        /\ calls[c].method = "DELETE"
                        /\ calls[c].payload = loc.dest_applications[i].id
              /\ Len(srv.dst.applications) = Len(srv.src.applications)

\* The source has a non-default and a default application, the destination had one
\* application; every call succeeded: a creation, a deletion, the creation of the
\* default application, and the destination has two applications.
C15_Witness ==
    /\ pc = "returned"
    /\ loc.run = 1
    /\ loc.all_succeeded
    /\ OneSourceDefault
    /\ Len(srv.src.applications) = 2
    /\ Cardinality(CallsOf("dst", "DELETE", "applications")) = 1
    /\ Cardinality(CallsOf("dst", "POST", "applications")) = 2
    /\ Len(srv.dst.applications) = 2

(***************************************************************************)
(* Claims about a failed fetch of the destination collection               *)
(***************************************************************************)

\* The tenant step, the settings step or the roles step, each from its call in main.
SpecFetch ==
    /\ InitTenants \/ InitSettings \/ InitRoles
    /\ [][NextTenants \/ NextSettings \/ NextRoles]_vars

\* The requests that create tenants, categories, permissions or roles.
CreationCalls ==
    CallsOf("dst", "POST", "tenants") \cup CallsOf("dst", "POST", "categories")
    \cup CallsOf("dst", "POST", "permissions") \cup CallsOf("dst", "POST", "roles")

\* C16: when the fetch of the destination's tenants, categories or roles has failed,
\* the step sends no creation call.
C16_FailedFetchAbandons == srv.dst.fetch_failed => CreationCalls = {}

\* The fetch of the destination's tenants failed; a creation call was sent for a
\* tenant the destination holds.
C16_Witness ==
    /\ srv.dst.fetch_failed
    /\ \E c \in CallsOf("dst", "POST", "tenants") :
          calls[c].payload.tenantId \in srv.dst.tenants \ srv.dst.created

(***************************************************************************)
(* Claims about the flags of the users step                                *)
(***************************************************************************)

\* C19: with MIGRATE_USERS disabled the users step sends no CSV bulk import to the
\* destination, whatever MIGRATE_USER_ROLES is.
C19_NoImportWithoutUsersFlag ==
    ~loc.migrate_users_flag => CallsOf("dst", "POST", "csv") = {}

\* MIGRATE_USERS is disabled and MIGRATE_USER_ROLES enabled; the step has returned and
\* the CSV of two users was sent to the destination.
C19_Witness ==
    /\ pc = "returned"
    /\ ~loc.migrate_users_flag
    /\ loc.migrate_user_roles
    /\ \E c \in CallsOf("dst", "POST", "csv") : Len(calls[c].payload) = 2

(***************************************************************************)
(* frontegg_client.py and tenants.py: tokens, rate limits and the clock    *)
(***************************************************************************)

\* The most calls of a request function in one behaviour.
MaxRequests == 2

\* DEFAULT_RATE_LIMIT, in requests per minute.
DEFAULT_RATE_LIMIT == 30

\* time.sleep(60) after an answer of 429.
RetryDelay == 60

\* timedelta(seconds=expires_in - 60)
ExpiryMargin == 60

\* The endpoints requests are sent to.
Urls == {"url_1", "url_2"}

\* RATE_LIMITS, which has no entry.
RATE_LIMITS == EmptyMap

\* get_rate_limit
GetRateLimit(endpoint) ==
    IF endpoint \in DOMAIN RATE_LIMITS THEN RATE_LIMITS[endpoint] ELSE DEFAULT_RATE_LIMIT

\* The expiresIn values, in seconds, the platform may answer an authentication with.
ExpiresIn == {62, 120, 3600}

\* The seconds that may pass between two calls, and the seconds an answer may take.
Pauses == {1, 2}
Latencies == {0, 1}

\* The clients are constructed: authenticate() at time 0 has set the token and its
\* expiry.
InitClock ==
    /\ pc = "running"
    /\ \E expires_in \in ExpiresIn :
         /\ loc = [now |-> 0, token |-> 1, token_expiry |-> expires_in - ExpiryMargin,
                   last_request_times |-> EmptyMap, requests |-> 0, paused |-> FALSE]
         /\ srv = [tokens |-> 1]
    /\ calls = <<>>

\* The step does something else between two requests.
Work ==
    /\ pc = "running"
    /\ ~loc.paused
    /\ loc.requests < MaxRequests
    /\ \E p \in Pauses : loc' = [loc EXCEPT !.now = @ + p, !.paused = TRUE]
    /\ UNCHANGED <<pc, calls, srv>>

\* The seconds enforce_rate_limit sleeps before a request to the endpoint.
RateLimitSleep(endpoint, now, last_request_times) ==
    LET interval == 60 \div GetRateLimit(endpoint) IN
    IF endpoint \in DOMAIN last_request_times /\ now - last_request_times[endpoint] < interval
    THEN interval - (now - last_request_times[endpoint])
    ELSE 0

\* A request as it is sent: its endpoint, the time, and the token in its header with
\* the expiry the client has recorded for it.
Sent(via, url, at) ==
    Call("dst", "GET", url,
         [via |-> via, sent_at |-> at, token |-> loc.token, token_expiry |-> loc.token_expiry])

\* One call of make_request_with_rate_limiting with the headers of get_headers(client):
\* enforce_rate_limit sleeps and stamps the endpoint, the request is sent, and after an
\* answer of 429 it is sent again 60 seconds later.  The token is client.token as it is.
MakeRequestWithRateLimiting ==
    /\ pc = "running"
    /\ loc.requests < MaxRequests
    /\ \E url \in Urls, first \in Answers, second \in Answers,
          l1 \in Latencies, l2 \in Latencies :
         LET answers == Attempts(first, second)
             t1 == loc.now + RateLimitSleep(url, loc.now, loc.last_request_times)
             t2 == t1 + l1 + RetryDelay
         IN IF Len(answers) = 1
            THEN /\ l2 = 0
                 /\ second = "ok"
                 /\ calls' = Append(calls, Sent("make_request_with_rate_limiting", url, t1))
                 /\ loc' = [loc EXCEPT !.now = t1 + l1,
                                       !.last_request_times = Put(@, url, t1),
                                       !.requests = @ + 1, !.paused = FALSE]
            ELSE /\ calls' = calls \o <<Sent("make_request_with_rate_limiting", url, t1),
                                        Sent("make_request_with_rate_limiting", url, t2)>>
                 /\ loc' = [loc EXCEPT !.now = t2 + l2,
                                       !.last_request_times = Put(@, url, t1),
                                       !.requests = @ + 1, !.paused = FALSE]
    /\ UNCHANGED <<pc, srv>>

\* One call of FronteggClient.request: authenticate() when the token is missing or the
\* time has reached token_expiry, then the request.  A failed authentication is raised.
ClientRequest ==
    /\ pc = "running"
    /\ loc.requests < MaxRequests
    /\ \E url \in Urls, l1 \in Latencies :
         IF loc.token = 0 \/ loc.now >= loc.token_expiry
         THEN \E authenticated \in BOOLEAN, expires_in \in ExpiresIn :
                IF authenticated
                THEN /\ srv' = [srv EXCEPT !.tokens = @ + 1]
                     /\ loc' = [loc EXCEPT !.token = srv.tokens + 1,
                                           !.token_expiry = loc.now + expires_in - ExpiryMargin,
                                           !.now = @ + l1,
                                           !.requests = @ + 1, !.paused = FALSE]
                     /\ calls' = Append(calls,
                                   Call("dst", "GET", url,
                                        [via |-> "request", sent_at |-> loc.now,
                                         token |-> srv.tokens + 1,
                                         token_expiry |-> loc.now + expires_in - ExpiryMargin]))
                     /\ pc' = pc
                ELSE /\ expires_in = 3600 /\ l1 = 0
                     /\ pc' = "raised"
                     /\ UNCHANGED <<loc, calls, srv>>
         ELSE /\ calls' = Append(calls, Sent("request", url, loc.now))
              /\ loc' = [loc EXCEPT !.now = @ + l1, !.requests = @ + 1, !.paused = FALSE]
              /\ UNCHANGED <<pc, srv>>

NextClock ==
    \/ Work
    \/ MakeRequestWithRateLimiting
    \/ ClientRequest

SpecClock == InitClock /\ [][NextClock]_vars

\* C17: every request is sent with a token whose recorded expiry has not passed.
C17_TokenNeverExpired ==
    \A c \in 1..Len(calls) : calls[c].payload.sent_at < calls[c].payload.token_expiry

\* A request of a migration step was sent through make_request_with_rate_limiting at
\* or after the expiry of the token it carries.
C17_Witness ==
    \E c \in 1..Len(calls) :
        /\ calls[c].payload.via = "make_request_with_rate_limiting"
        /\ calls[c].payload.sent_at >= calls[c].payload.token_expiry

\* Requests c and d were sent through make_request_with_rate_limiting to the same URL,
\* d after c with none between them.
ConsecutiveToSameUrl(c, d) ==
    /\ c < d
    /\ calls[c].kind = calls[d].kind
    /\ calls[c].payload.via = "make_request_with_rate_limiting"
    /\ calls[d].payload.via = "make_request_with_rate_limiting"
    /\ \A e \in (c + 1)..(d - 1) :
          ~(calls[e].kind = calls[c].kind
            /\ calls[e].payload.via = "make_request_with_rate_limiting")

\* C20: two consecutive requests to one URL are at least 60/rate_limit seconds apart.
C20_RequestsSpaced ==
    \A c \in 1..Len(calls), d \in 1..Len(calls) :
        ConsecutiveToSameUrl(c, d) =>
            calls[d].payload.sent_at - calls[c].payload.sent_at
                >= 60 \div GetRateLimit(calls[c].kind)

\* A request was sent again 60 seconds after an answer of 429, and the next request to
\* that URL followed the second sending by less than the interval.
C20_Witness ==
    \E c \in 1..Len(calls), d \in 1..Len(calls), e \in 1..Len(calls) :
        /\ ConsecutiveToSameUrl(c, d)
        /\ ConsecutiveToSameUrl(d, e)
        /\ calls[d].payload.sent_at - calls[c].payload.sent_at >= RetryDelay
        /\ calls[e].payload.sent_at - calls[d].payload.sent_at
              < 60 \div GetRateLimit(calls[c].kind)

(***************************************************************************)
(* tenants.py, groups.py, assign_roles_to_users.py: fetching a collection  *)
(***************************************************************************)

\* The most pages the platform splits a collection into.
MaxPages == 3

\* The k-th record of a collection, in server order.
Item(k) == [id |-> <<"item", k>>, email |-> Email(k)]

\* The ways the platform may split a collection: the numbers of records of its pages.
\* An empty collection is one page without records.
PageSizes == {<<0>>} \cup UNION {[1..n -> {1, 2}] : n \in 1..MaxPages}

RECURSIVE SumUpTo(_, _)
SumUpTo(sizes, n) == IF n = 0 THEN 0 ELSE sizes[n] + SumUpTo(sizes, n - 1)

\* The records of page p, and the whole collection in server order.
PageItems(sizes, p) ==
    [k \in 1..sizes[p] |-> Item(SumUpTo(sizes, p - 1) + k)]

AllItems(sizes) == [k \in 1..SumUpTo(sizes, Len(sizes)) |-> Item(k)]

\* _links.next of page p: none on the last page; else a link that names the next page
\* by an _offset parameter, or by some other parameter.
NoLink == [more |-> FALSE, has_offset |-> FALSE, offset |-> 0]

NextLink(sizes, p, link_style) ==
    IF p < Len(sizes)
    THEN [more |-> TRUE, has_offset |-> link_style = "offset", offset |-> p + 1]
    ELSE NoLink

InitPaging ==
    /\ pc = "fetch"
    /\ loc = [failed |-> FALSE]
    /\ calls = <<>>
    /\ \E sizes \in PageSizes, link_style \in {"offset", "cursor"} :
         srv = [sizes |-> sizes, link_style |-> link_style]

\* get_tenants: one request; its 'items', or [] when the request fails.
GetTenants ==
    /\ pc = "fetch"
    /\ \E ok \in BOOLEAN :
         loc' = [fetcher |-> "get_tenants", failed |-> ~ok,
                 result |-> IF ok THEN PageItems(srv.sizes, 1) ELSE <<>>]
    /\ calls' = Append(calls, Call("dst", "GET", "tenants", 1))
    /\ pc' = "returned"
    /\ UNCHANGED srv

\* {user['email']: user['id'] for user in users}
EmailToId(users) ==
    [e \in {users[i].email : i \in 1..Len(users)} |->
        LET hits == {i \in 1..Len(users) : users[i].email = e}
        IN users[CHOOSE i \in hits : \A j \in hits : j <= i].id]

\* fetch_users_from_destination: one request, raise_for_status(), and the dictionary
\* from email to id of its 'items'.
FetchUsersFromDestination ==
    /\ pc = "fetch"
    /\ calls' = Append(calls, Call("dst", "GET", "users", 1))
    /\ \E ok \in BOOLEAN :
         IF ok
         THEN /\ loc' = [fetcher |-> "fetch_users_from_destination", failed |-> FALSE,
                         result |-> EmailToId(PageItems(srv.sizes, 1))]
              /\ pc' = "returned"
         ELSE /\ loc' = [fetcher |-> "fetch_users_from_destination", failed |-> TRUE]
              /\ pc' = "raised"
    /\ UNCHANGED srv

\* get_users_with_pagination up to its loop: the first request.  An error answer has
\* neither 'items' nor '_links'.
GUP_First ==
    /\ pc = "fetch"
    /\ calls' = Append(calls, Call("dst", "GET", "users", 1))
    /\ \E ok \in BOOLEAN :
         loc' = [fetcher |-> "get_users_with_pagination", failed |-> ~ok,
                 items_arr |-> IF ok THEN PageItems(srv.sizes, 1) ELSE <<>>,
                 next_page |-> IF ok THEN NextLink(srv.sizes, 1, srv.link_style)
                               ELSE NoLink]
    /\ pc' = "gup_loop"
    /\ UNCHANGED srv

\* One pass of the loop: with an _offset in the link the page at that offset is
\* requested and its items appended; without one the loop is left.
GUP_Next ==
    /\ pc = "gup_loop"
    /\ loc.next_page.more
    /\ IF loc.next_page.has_offset
       THEN /\ calls' = Append(calls, Call("dst", "GET", "users", loc.next_page.offset))
            /\ \E ok \in BOOLEAN :
                 loc' = [loc EXCEPT
                           !.failed = @ \/ ~ok,
                           !.items_arr = IF ok
                                         THEN @ \o PageItems(srv.sizes, loc.next_page.offset)
                                         ELSE @,
                           !.next_page = IF ok
                                         THEN NextLink(srv.sizes, loc.next_page.offset,
                                                       srv.link_style)
                                         ELSE NoLink]
            /\ pc' = pc
       ELSE /\ pc' = "gup_break"
            /\ UNCHANGED <<loc, calls>>
    /\ UNCHANGED srv

\* return {"count": len(items_arr), "items": items_arr}
GUP_Return ==
    /\ \/ pc = "gup_break"
       \/ pc = "gup_loop" /\ ~loc.next_page.more
    /\ loc' = [fetcher |-> loc.fetcher, failed |-> loc.failed, result |-> loc.items_arr]
    /\ pc' = "returned"
    /\ UNCHANGED <<calls, srv>>

NextPaging ==
    \/ GetTenants
    \/ FetchUsersFromDestination
    \/ GUP_First
    \/ GUP_Next
    \/ GUP_Return

SpecPaging == InitPaging /\ [][NextPaging]_vars

\* C21: a fetch whose requests all succeeded returns the records of all pages, in
\* server order.
C21_AllPagesReturned ==
    (pc = "returned" /\ ~loc.failed) =>
        loc.result = IF loc.fetcher = "fetch_users_from_destination"
                     THEN EmailToId(AllItems(srv.sizes))
                     ELSE AllItems(srv.sizes)

\* The destination has its tenants on two pages; get_tenants returned the first page.
C21_Witness ==
    /\ pc = "returned"
    /\ ~loc.failed
    /\ loc.fetcher = "get_tenants"
    /\ Len(srv.sizes) = 2
    /\ Len(calls) = 1
    /\ Len(loc.result) < Len(AllItems(srv.sizes))

(***************************************************************************)
(* security_rules.py: migrate_security_rules                               *)
(***************************************************************************)

\* The number of rule types of SECURITY_RULES the model runs through.
MaxRules == 2

SECURITY_RULES ==
    <<"bot-detection", "device-fingerprint", "brute-force", "breached-password",
      "impossible-travel", "suspicious-ip", "stale-users", "email-reputation">>

RuleTypes == SubSeq(SECURITY_RULES, 1, MaxRules)

important_fields ==
    {"action", "enabled", "threshold", "timeWindow", "lockDuration", "challengeType"}

\* The configurations an instance may hold of a rule: a dictionary with or without
\* the compared field 'action' and with or without a field that is not compared.
RuleConfigs ==
    UNION {[fields -> {"block", "allow"}] : fields \in SUBSET {"action"}}
    \cup UNION {[fields \cup {"updatedAt"} -> {"block", "allow"}]
                  : fields \in SUBSET {"action"}}

\* get_security_rule: the configuration, or None when the request fails.
NoRule == [is_none |-> TRUE, data |-> EmptyMap]

Fetched(config) == [is_none |-> FALSE, data |-> config]

\* Python's truth value of what get_security_rule returned.
Truthy(rule) == ~rule.is_none /\ DOMAIN rule.data # {}

\* dict.get(field)
Get(config, field) == IF field \in DOMAIN config THEN config[field] ELSE None

compare_rules(source_rule, dest_rule) ==
    IF ~Truthy(source_rule) \/ ~Truthy(dest_rule)
    THEN FALSE
    ELSE \A field \in important_fields :
            (field \in DOMAIN source_rule.data \/ field \in DOMAIN dest_rule.data)
                => Get(source_rule.data, field) = Get(dest_rule.data, field)

InitSecurity ==
    /\ pc = "msr_fetch"
    /\ loc = [i |-> 1, source_rules |-> <<>>,
              migration_results |-> [fetched |-> 0, updated |-> 0, skipped |-> 0,
                                     failed |-> 0]]
    /\ calls = <<>>
    /\ srv = [dst |-> [config |-> EmptyMap]]

\* One pass of the first loop: the rule is fetched from the source and kept when the
\* answer is truthy.  source_rules keeps the order of insertion.
MSR_FetchSource ==
    /\ pc = "msr_fetch"
    /\ loc.i <= Len(RuleTypes)
    /\ calls' = Append(calls, Call("src", "GET", "security_rule", RuleTypes[loc.i]))
    /\ \E rule_config \in {NoRule} \cup {Fetched(c) : c \in RuleConfigs} :
         loc' = [loc EXCEPT
                   !.i = @ + 1,
                   !.source_rules =
                       IF Truthy(rule_config)
                       THEN Append(@, [rule_type |-> RuleTypes[loc.i],
                                       config |-> rule_config])
                       ELSE @,
                   !.migration_results.fetched =
                       IF Truthy(rule_config) THEN @ + 1 ELSE @]
    /\ pc' = pc
    /\ UNCHANGED srv

\* After the first loop: return when nothing was fetched, else start the second loop.
MSR_Fetched ==
    /\ pc = "msr_fetch"
    /\ loc.i > Len(RuleTypes)
    /\ IF loc.source_rules = <<>>
       THEN pc' = "returned" /\ loc' = loc
       ELSE pc' = "msr_update" /\ loc' = [loc EXCEPT !.i = 1]
    /\ UNCHANGED <<calls, srv>>

\* One pass of the second loop.  srv.dst.config is the configuration the destination
\* holds of the rule of this pass; dest_config is what get_security_rule returned.
MSR_Process ==
    /\ pc = "msr_update"
    /\ loc.i <= Len(loc.source_rules)
    /\ LET rule == loc.source_rules[loc.i]
           get == Call("dst", "GET", "security_rule", rule.rule_type)
           post == Call("dst", "POST", "security_rule",
                        [rule_type |-> rule.rule_type, config |-> rule.config.data])
       IN \E held \in RuleConfigs, fetch_ok \in BOOLEAN, update_ok \in BOOLEAN :
            LET dest_config == IF fetch_ok THEN Fetched(held) ELSE NoRule
            IN /\ srv' = [srv EXCEPT !.dst.config = held]
               /\ IF compare_rules(rule.config, dest_config)
                  THEN /\ update_ok    \* no update is sent: its answer is not drawn
                       /\ calls' = Append(calls, get)
                       /\ loc' = [loc EXCEPT !.i = @ + 1,
                                             !.migration_results.skipped = @ + 1]
                  ELSE /\ calls' = calls \o <<get, post>>
                       /\ loc' = [loc EXCEPT
                                    !.i = @ + 1,
                                    !.migration_results.updated =
                                        IF update_ok THEN @ + 1 ELSE @,
                                    !.migration_results.failed =
                                        IF update_ok THEN @ ELSE @ + 1]
    /\ pc' = pc

\* After the second loop: the summary, and with an update counted, one more fetch of
\* every rule of source_rules from the destination for the list of updated rules.
MSR_Summary ==
    /\ pc = "msr_update"
    /\ loc.i > Len(loc.source_rules)
    /\ calls' = IF loc.migration_results.updated > 0
                THEN calls \o [k \in 1..Len(loc.source_rules) |->
                                  Call("dst", "GET", "security_rule",
                                       loc.source_rules[k].rule_type)]
                ELSE calls
    /\ pc' = "returned"
    /\ UNCHANGED <<loc, srv>>

NextSecurity ==
    \/ MSR_FetchSource
    \/ MSR_Fetched
    \/ MSR_Process
    \/ MSR_Summary

SpecSecurity == InitSecurity /\ [][NextSecurity]_vars

\* Some compared field differs between two configurations.
ComparedFieldDiffers(source_config, dest_config) ==
    \E field \in important_fields : Get(source_config, field) # Get(dest_config, field)

\* A pass of the second loop, and whether it sent an update call.
ProcessedRule == pc = "msr_update" /\ loc'.i = loc.i + 1

UpdateSent == \E k \in Len(calls) + 1..Len(calls') : calls'[k].method = "POST"

C22_Counts ==
    pc = "returned" =>
        loc.migration_results.updated + loc.migration_results.skipped
            + loc.migration_results.failed = loc.migration_results.fetched

C22_Pass ==
    ProcessedRule =>
        /\ UpdateSent <=> ComparedFieldDiffers(loc.source_rules[loc.i].config.data,
                                               srv'.dst.config)
        /\ ~UpdateSent <=>
               loc'.migration_results.skipped = loc.migration_results.skipped + 1

\* C22: an update call is sent for a fetched rule exactly when a compared field differs
\* between the source's and the destination's configuration; otherwise the rule is
\* counted as skipped and no call is made; at the end updated + skipped + failed is
\* the number of rules fetched.
C22_UpdateIffDiffers == [](C22_Counts) /\ [][C22_Pass]_vars

\* An update call was sent for a rule whose compared fields are the same in the source
\* and in the destination, after the fetch of the destination's configuration failed.
C22_Witness ==
    /\ pc = "msr_update"
    /\ loc.i = 2
    /\ Len(calls) > 0
    /\ calls[Len(calls)].method = "POST"
    /\ ~ComparedFieldDiffers(calls[Len(calls)].payload.config, srv.dst.config)

(***************************************************************************)
(* email_templates.py: migrate_email_templates                             *)
(***************************************************************************)

\* The number of template types of EMAIL_TEMPLATE_TYPES the model runs through.
MaxTemplates == 2

EMAIL_TEMPLATE_TYPES ==
    <<"ActivateUser", "ResetPassword", "MagicLink", "MagicCode",
      "ConnectOtpAuthenticator", "EnrollMfaAuthenticator", "UserInvitation",
      "PwlessInvitation", "ResetPhoneNumber", "VerifyEmail", "VerifyPhoneNumber",
      "ResetMfa", "RemoveUser", "BulkInviteTemplate", "NewDeviceConnected",
      "UserUsedInvitation", "EmailVerification">>

TemplateTypes == {EMAIL_TEMPLATE_TYPES[k] : k \in 1..MaxTemplates}

fields_to_compare == {"htmlTemplate", "subject", "fromName", "active", "senderEmail"}

UrlFields ==
    {"redirectURL", "successRedirectUrl", "redirectURLPattern",
     "successRedirectUrlPattern"}

\* The templates an instance may hold of one type.
SrcTemplates ==
    {[subject |-> "s1", redirectURL |-> "src_url"], [subject |-> "s2"],
     [htmlTemplate |-> "h1", subject |-> "s1"]}

DstTemplates ==
    {[subject |-> "s1", redirectURL |-> "dst_url"], [subject |-> "s1"],
     [subject |-> "s2", redirectURL |-> "dst_url",
      successRedirectUrlPattern |-> "dst_pattern"]}

\* Dictionaries from template type to template.
TemplateDicts(templates) ==
    UNION {[types -> templates] : types \in SUBSET TemplateTypes}

\* dict.get(field, default)
GetOr(d, field, default) == IF field \in DOMAIN d THEN d[field] ELSE default

compare_templates(source_template, dest_template) ==
    \E field \in fields_to_compare :
        GetOr(source_template, field, None) # GetOr(dest_template, field, None)

\* The truth value of dest_templates.get(template_type).
HasTemplate(templates, template_type) ==
    template_type \in DOMAIN templates /\ DOMAIN templates[template_type] # {}

\* templates_to_update, in the order of source_templates.
TemplatesToUpdate(source_templates, dest_templates) ==
    SelectIdx(SubSeq(EMAIL_TEMPLATE_TYPES, 1, MaxTemplates),
              {k \in 1..MaxTemplates :
                 LET t == EMAIL_TEMPLATE_TYPES[k]
                 IN /\ t \in DOMAIN source_templates
                    /\ HasTemplate(dest_templates, t)
                           => compare_templates(source_templates[t], dest_templates[t])})

\* update_data of update_email_template.
UpdateData(template_type, template_data, dest_urls) ==
    [type |-> template_type,
     htmlTemplate |-> GetOr(template_data, "htmlTemplate", ""),
     subject |-> GetOr(template_data, "subject", ""),
     fromName |-> GetOr(template_data, "fromName", ""),
     active |-> GetOr(template_data, "active", "True"),
     senderEmail |-> GetOr(template_data, "senderEmail", ""),
     redirectURL |-> dest_urls.redirectURL,
     successRedirectUrl |-> dest_urls.successRedirectUrl,
     redirectURLPattern |-> dest_urls.redirectURLPattern,
     successRedirectUrlPattern |-> dest_urls.successRedirectUrlPattern]

InitTemplates ==
    /\ pc = "met_start"
    /\ \E flag \in BOOLEAN : loc = [MIGRATE_EMAIL_TEMPLATES |-> flag]
    /\ calls = <<>>
    /\ srv = [src |-> [templates |-> EmptyMap], dst |-> [templates |-> EmptyMap]]

\* migrate_email_templates with the flag off.
MET_Disabled ==
    /\ pc = "met_start"
    /\ ~loc.MIGRATE_EMAIL_TEMPLATES
    /\ pc' = "returned"
    /\ UNCHANGED <<loc, calls, srv>>

\* Both get_email_templates calls and the comparison.  An instance holds held[type];
\* get_email_templates returns the templates whose request did not fail.
MET_Get ==
    /\ pc = "met_start"
    /\ loc.MIGRATE_EMAIL_TEMPLATES
    /\ \E src_held \in TemplateDicts(SrcTemplates), dst_held \in TemplateDicts(DstTemplates) :
       \E src_got \in SUBSET DOMAIN src_held, dst_got \in SUBSET DOMAIN dst_held :
         LET source_templates == [t \in src_got |-> src_held[t]]
             dest_templates == [t \in dst_got |-> dst_held[t]]
         IN /\ srv' = [src |-> [templates |-> src_held], dst |-> [templates |-> dst_held]]
            /\ calls' = <<Call("src", "GET", "templates", None),
                          Call("dst", "GET", "templates", None)>>
            /\ IF DOMAIN source_templates = {}
               THEN /\ pc' = "returned"
                    /\ loc' = loc
               ELSE /\ pc' = "met_update"
                    /\ loc' = [source_templates |-> source_templates,
                               dest_templates |-> dest_templates,
                               templates_to_update |->
                                   TemplatesToUpdate(source_templates, dest_templates),
                               success_count |-> 0, i |-> 1]

\* One pass of the update loop.  An accepted update leaves the destination with the
\* template of the payload.
MET_Update ==
    /\ pc = "met_update"
    /\ loc.i <= Len(loc.templates_to_update)
    /\ LET template_type == loc.templates_to_update[loc.i]
           dest_template == GetOr(loc.dest_templates, template_type, EmptyMap)
           dest_urls == [f \in UrlFields |-> GetOr(dest_template, f, None)]
           update_data == UpdateData(template_type, loc.source_templates[template_type],
                                     dest_urls)
       IN /\ calls' = Append(calls, Call("dst", "POST", "template", update_data))
          /\ \E ok \in BOOLEAN :
               /\ loc' = [loc EXCEPT !.i = @ + 1,
                                     !.success_count = IF ok THEN @ + 1 ELSE @]
               /\ srv' = IF ok
                         THEN [srv EXCEPT !.dst.templates = Put(@, template_type, update_data)]
                         ELSE srv
    /\ pc' = pc

MET_Return ==
    /\ pc = "met_update"
    /\ loc.i > Len(loc.templates_to_update)
    /\ pc' = "returned"
    /\ UNCHANGED <<loc, calls, srv>>

NextTemplates ==
    \/ MET_Disabled
    \/ MET_Get
    \/ MET_Update
    \/ MET_Return

SpecTemplates == InitTemplates /\ [][NextTemplates]_vars

\* The update call an update pass sends.
UpdatePass == pc = "met_update" /\ Len(calls') = Len(calls) + 1

C23_Payload ==
    UpdatePass =>
        LET payload == calls'[Len(calls')].payload
            source_template == srv.src.templates[payload.type]
            held == GetOr(srv.dst.templates, payload.type, EmptyMap)
        IN /\ \A f \in fields_to_compare :
                f \in DOMAIN source_template => payload[f] = source_template[f]
           /\ \A f \in UrlFields : payload[f] = GetOr(held, f, None)

C23_Continues ==
    (pc = "met_update" /\ loc.i <= Len(loc.templates_to_update)) => ENABLED MET_Update

\* C23: the content fields of every update payload are the source template's, its
\* redirect fields are those the destination template had before the update, and the
\* update loop goes on after a failed update.
C23_PayloadMerged == [][C23_Payload]_vars /\ [](C23_Continues)

\* An update was sent without the redirectURL the destination's template holds: the
\* destination's template was not among the fetched ones.
C23_Witness ==
    /\ pc = "met_update"
    /\ loc.i = 2
    /\ Len(calls) = 3
    /\ calls[3].payload.type \in DOMAIN srv.dst.templates
    /\ calls[3].payload.type \notin DOMAIN loc.dest_templates
    /\ calls[3].payload.redirectURL = None
    /\ loc.success_count = 0
    /\ "redirectURL" \in DOMAIN srv.dst.templates[calls[3].payload.type]

(***************************************************************************)
(* Matching on a natural key the destination holds twice                   *)
(***************************************************************************)

SpecFirstMatch == (InitSettings \/ InitUsers) /\ [][NextSettings \/ NextUsers]_vars

\* The j-th record is the first of records that satisfies Same.
IsFirst(records, j, Same(_)) ==
    /\ j \in 1..Len(records)
    /\ Same(records[j])
    /\ \A k \in 1..(j - 1) : ~Same(records[k])

C24_Categories ==
    ({"category_mapping", "source_categories", "destination_categories"} \subseteq DOMAIN loc)
        => \A i \in 1..Len(loc.source_categories) :
             \A j \in 1..Len(loc.destination_categories) :
                LET src_cat == loc.source_categories[i]
                    SameKey(dest_cat) == /\ dest_cat.name = src_cat.name
                                         /\ dest_cat.description = src_cat.description
                IN IsFirst(loc.destination_categories, j, SameKey)
                      => /\ src_cat.id \in DOMAIN loc.category_mapping
                         /\ loc.category_mapping[src_cat.id]
                               = loc.destination_categories[j].id

C24_Roles ==
    "role_id_mapping" \in DOMAIN loc
        => \A i \in 1..Len(srv.src.roles) :
             \A j \in 1..Len(srv.dst.roles) :
                LET src_role == srv.src.roles[i]
                    SameName(dest_role) == dest_role.name = src_role.name
                IN IsFirst(srv.dst.roles, j, SameName)
                      => /\ src_role.id \in DOMAIN loc.role_id_mapping
                         /\ loc.role_id_mapping[src_role.id] = srv.dst.roles[j].id

\* C24: a source category and a source role are mapped to the first destination record,
\* in fetched order, that shares their natural key.
C24_FirstMatchWins == C24_Categories /\ C24_Roles

\* The destination lists two roles of one name and the source role of that name is
\* mapped to the second of them.
C24_Witness ==
    /\ "role_id_mapping" \in DOMAIN loc
    /\ Len(srv.dst.roles) = 2
    /\ srv.dst.roles[1].name = srv.dst.roles[2].name
    /\ Len(srv.src.roles) >= 1
    /\ srv.src.roles[1].name = srv.dst.roles[1].name
    /\ srv.src.roles[1].id \in DOMAIN loc.role_id_mapping
    /\ loc.role_id_mapping[srv.src.roles[1].id] = srv.dst.roles[2].id

(***************************************************************************)
(* delete_account_data.py: main                                            *)
(***************************************************************************)

\* The most deletion flags that are on, the most applications the account holds before
\* the run, and the most records it holds of any other kind.
MaxPhases == 2
MaxDelApps == 2
MaxRecords == 1

\* The deletion phases in the order main runs them.
Phases == <<"applications", "tenants", "users", "permissions", "roles", "prehooks">>

DummyAppId == <<"dummy_app", 0>>
RecordId(kind, i) == <<kind, i>>

\* How a deletion request may end: 2xx, 404, another error status, or no answer.
DeleteAnswers == {"ok", "404", "http_error", "connection_error"}

\* Whether the exception of a failed deletion leaves the delete function.
\* delete_tenant has no handler; delete_permission re-raises an error status other than
\* 404; the others catch requests.exceptions.HTTPError, which a request without an
\* answer does not raise.
DeleteRaises(phase, answer) ==
    CASE answer = "ok" -> FALSE
      [] phase = "tenants" -> TRUE
      [] phase = "permissions" -> answer # "404"
      [] OTHER -> answer = "connection_error"

InitDelete ==
    /\ pc = "da_token"
    /\ \E enabled \in SUBSET Range(Phases) :
         /\ Cardinality(enabled) <= MaxPhases
         /\ loc = [enabled |-> enabled, p |-> 1, raised_by |-> None]
    /\ calls = <<>>
    /\ srv = [dst |-> [applications |-> <<>>]]

\* token = get_vendor_token()
DA_Token ==
    /\ pc = "da_token"
    /\ calls' = Append(calls, Call("dst", "POST", "auth", None))
    /\ \E ok \in BOOLEAN :
         IF ok
         THEN pc' = "da_phase" /\ loc' = loc
         ELSE pc' = "raised" /\ loc' = [loc EXCEPT !.raised_by = "get_vendor_token"]
    /\ UNCHANGED srv

\* The if of the next phase: a phase whose flag is off is passed over.
DA_Phase ==
    /\ pc = "da_phase"
    /\ IF loc.p > Len(Phases)
       THEN pc' = "done" /\ loc' = loc
       ELSE IF Phases[loc.p] \notin loc.enabled
            THEN pc' = pc /\ loc' = [loc EXCEPT !.p = @ + 1]
            ELSE /\ pc' = IF Phases[loc.p] = "applications" THEN "da_dummy" ELSE "da_fetch"
                 /\ loc' = loc
    /\ UNCHANGED <<calls, srv>>

\* Steps 1 and 2 of the application phase: create_dummy_application, get_applications
\* and the split into apps_to_delete and the dummy.  The answer lists the dummy, when
\* it was created, before the applications the account had.
DA_Dummy ==
    /\ pc = "da_dummy"
    /\ \E dummy \in {"ok", "http_error", "connection_error"}, fetch_ok \in BOOLEAN,
          n \in 0..MaxDelApps :
         LET post == Call("dst", "POST", "application", DummyAppId)
             get == Call("dst", "GET", "applications", None)
             held == [i \in 1..n |-> [id |-> RecordId("app", i)]]
             applications == IF dummy = "ok" THEN <<[id |-> DummyAppId]>> \o held
                             ELSE held
             apps_to_delete ==
                 SelectIdx(applications,
                           {i \in 1..Len(applications) :
                               dummy # "ok" \/ applications[i].id # DummyAppId})
         IN IF dummy = "connection_error"
            THEN /\ fetch_ok /\ n = 0
                 /\ calls' = Append(calls, post)
                 /\ pc' = "raised"
                 /\ loc' = [loc EXCEPT !.raised_by = "create_dummy_application"]
                 /\ UNCHANGED srv
            ELSE IF ~fetch_ok
            THEN /\ n = 0
                 /\ calls' = calls \o <<post, get>>
                 /\ pc' = "raised"
                 /\ loc' = [loc EXCEPT !.raised_by = "get_applications"]
                 /\ UNCHANGED srv
            ELSE /\ calls' = calls \o <<post, get>>
                 /\ srv' = [srv EXCEPT !.dst.applications = applications]
                 /\ IF applications = <<>>
                    THEN /\ pc' = "da_phase"
                         /\ loc' = [loc EXCEPT !.p = @ + 1]
                    ELSE /\ pc' = "da_delete_apps"
                         /\ loc' = [enabled |-> loc.enabled, p |-> loc.p,
                                    raised_by |-> None,
                                    has_dummy |-> dummy = "ok",
                                    apps_to_delete |-> apps_to_delete,
                                    i |-> 1, deleted_count |-> 0, failed_count |-> 0]

\* Step 3: one pass of the loop over apps_to_delete.
DA_DeleteApp ==
    /\ pc = "da_delete_apps"
    /\ loc.i <= Len(loc.apps_to_delete)
    /\ calls' = Append(calls, Call("dst", "DELETE", "application",
                                   loc.apps_to_delete[loc.i].id))
    /\ \E answer \in DeleteAnswers :
         IF DeleteRaises("applications", answer)
         THEN /\ pc' = "raised"
              /\ loc' = [loc EXCEPT !.raised_by = "delete_application"]
         ELSE /\ pc' = pc
              /\ loc' = [loc EXCEPT
                           !.i = @ + 1,
                           !.deleted_count = IF answer = "ok" THEN @ + 1 ELSE @,
                           !.failed_count = IF answer = "ok" THEN @ ELSE @ + 1]
    /\ UNCHANGED srv

\* Step 4: the dummy, when it was created, is deleted after the loop.
DA_DeleteDummy ==
    /\ pc = "da_delete_apps"
    /\ loc.i > Len(loc.apps_to_delete)
    /\ IF loc.has_dummy
       THEN /\ calls' = Append(calls, Call("dst", "DELETE", "application", DummyAppId))
            /\ \E answer \in DeleteAnswers :
                 IF DeleteRaises("applications", answer)
                 THEN /\ pc' = "raised"
                      /\ loc' = [loc EXCEPT !.raised_by = "delete_application"]
                 ELSE /\ pc' = "da_phase"
                      /\ loc' = [enabled |-> loc.enabled, p |-> loc.p + 1,
                                 raised_by |-> None]
       ELSE /\ calls' = calls
            /\ pc' = "da_phase"
            /\ loc' = [enabled |-> loc.enabled, p |-> loc.p + 1, raised_by |-> None]
    /\ UNCHANGED srv

\* The fetch of another phase.  get_prehooks answers [] for an error status; every other
\* failed fetch raises.
DA_Fetch ==
    /\ pc = "da_fetch"
    /\ LET phase == Phases[loc.p]
       IN /\ calls' = Append(calls, Call("dst", "GET", phase, None))
          /\ \E answer \in {"ok", "http_error", "connection_error"}, n \in 0..MaxRecords :
               IF answer = "ok"
               THEN /\ pc' = "da_delete"
                    /\ loc' = [enabled |-> loc.enabled, p |-> loc.p, raised_by |-> None,
                               ids |-> [i \in 1..n |-> RecordId(phase, i)], i |-> 1]
               ELSE /\ n = 0
                    /\ IF phase = "prehooks" /\ answer = "http_error"
                       THEN /\ pc' = "da_phase"
                            /\ loc' = [loc EXCEPT !.p = @ + 1]
                       ELSE /\ pc' = "raised"
                            /\ loc' = [loc EXCEPT !.raised_by = "get_" \o phase]
    /\ UNCHANGED srv

\* One pass of the deletion loop of another phase, and the end of the loop.
DA_Delete ==
    /\ pc = "da_delete"
    /\ LET phase == Phases[loc.p]
       IN IF loc.i <= Len(loc.ids)
          THEN /\ calls' = Append(calls, Call("dst", "DELETE", phase, loc.ids[loc.i]))
               /\ \E answer \in DeleteAnswers :
                    IF DeleteRaises(phase, answer)
                    THEN /\ pc' = "raised"
                         /\ loc' = [loc EXCEPT !.raised_by = "delete_" \o phase]
                    ELSE /\ pc' = pc
                         /\ loc' = [loc EXCEPT !.i = @ + 1]
          ELSE /\ calls' = calls
               /\ pc' = "da_phase"
               /\ loc' = [enabled |-> loc.enabled, p |-> loc.p + 1, raised_by |-> None]
    /\ UNCHANGED srv

NextDelete ==
    \/ DA_Token
    \/ DA_Phase
    \/ DA_Dummy
    \/ DA_DeleteApp
    \/ DA_DeleteDummy
    \/ DA_Fetch
    \/ DA_Delete

SpecDelete == InitDelete /\ [][NextDelete]_vars

\* The calls that delete the application id.
AppDeletions(id) ==
    {k \in CallsOf("dst", "DELETE", "application") : calls[k].payload = id}

C25_DummyLast ==
    \A k \in AppDeletions(DummyAppId) :
        \A i \in 1..Len(srv.dst.applications) :
            srv.dst.applications[i].id # DummyAppId
                => \E j \in AppDeletions(srv.dst.applications[i].id) : j < k

C25_RunGoesOn == pc = "raised" => loc.raised_by # "delete_application"

\* C25: the dummy application's deletion is attempted only after a deletion was
\* attempted for every other application, and a failed application deletion does not
\* stop the run, so that the phases after it still execute.
C25_PlaceholderLastAndContained == C25_DummyLast /\ C25_RunGoesOn

\* The run ended in delete_application, before the tenant phase that is enabled.
C25_Witness ==
    /\ pc = "raised"
    /\ loc.raised_by = "delete_application"
    /\ loc.enabled = {"applications", "tenants"}
    /\ CallsOf("dst", "GET", "tenants") = {}
    /\ Len(loc.apps_to_delete) = 2
    /\ loc.i = 1

(***************************************************************************)
(* webhooks.py: migrate_webhooks                                           *)
(***************************************************************************)

MaxWebhooks == 2

SrcWebhookId(i) == <<"src_webhook", i>>
DstWebhookId(i) == <<"dst_webhook", i>>

\* The kinds of webhook the loop of migrate_webhooks tells apart: an API webhook, a
\* CUSTOM_CODE webhook with and without executorIdentifier, and any other type.
WebhookKinds ==
    {[type |-> "API", executorIdentifier |-> None],
     [type |-> "CUSTOM_CODE", executorIdentifier |-> "code_1"],
     [type |-> "CUSTOM_CODE", executorIdentifier |-> None],
     [type |-> "Unknown", executorIdentifier |-> None]}

SrcWebhookLists ==
    {[i \in 1..Len(ks) |-> [id |-> SrcWebhookId(i), type |-> ks[i].type,
                            executorIdentifier |-> ks[i].executorIdentifier]] :
        ks \in SeqsUpTo(WebhookKinds, MaxWebhooks)}

DstWebhookLists ==
    {[i \in 1..n |-> [id |-> DstWebhookId(i), type |-> "API",
                      executorIdentifier |-> None]] : n \in 0..MaxWebhooks}

\* get_webhooks: the answer's list, or [] for any failure.
get_webhooks(ok, webhooks) == IF ok THEN webhooks ELSE <<>>

\* if not source_webhooks: return
NoSourceWebhooks_Never(source_webhooks) == FALSE

NoSourceWebhooks(source_webhooks) == source_webhooks = <<>>

\* delete_webhook(destination_client, webhook['id'])
DeleteWebhookCall_AtSource(webhook) == Call("src", "DELETE", "webhook", webhook.id)

DeleteWebhookCall(webhook) == Call("dst", "DELETE", "webhook", webhook.id)

InitWebhooks ==
    /\ pc = "mw_start"
    /\ \E flag \in BOOLEAN : loc = [MIGRATE_PREHOOKS |-> flag]
    /\ calls = <<>>
    /\ srv = [src |-> [webhooks |-> <<>>, fetch_failed |-> FALSE],
              dst |-> [webhooks |-> <<>>, deleted |-> {}, created |-> 0]]

MW_Disabled ==
    /\ pc = "mw_start"
    /\ ~loc.MIGRATE_PREHOOKS
    /\ pc' = "returned"
    /\ UNCHANGED <<loc, calls, srv>>

\* The fetch of the source's webhooks and, when there are any, of the destination's.
MW_Get ==
    /\ pc = "mw_start"
    /\ loc.MIGRATE_PREHOOKS
    /\ \E src_ok \in BOOLEAN, dst_ok \in BOOLEAN,
          sw \in SrcWebhookLists, dw \in DstWebhookLists :
         LET source_webhooks == get_webhooks(src_ok, sw)
             dest_webhooks == get_webhooks(dst_ok, dw)
             get_src == Call("src", "GET", "webhooks", None)
             get_dst == Call("dst", "GET", "webhooks", None)
         IN IF NoSourceWebhooks(source_webhooks)
            THEN /\ dst_ok /\ dw = <<>>
                 /\ src_ok => sw = <<>>
                 /\ srv' = [srv EXCEPT !.src.fetch_failed = ~src_ok]
                 /\ calls' = <<get_src>>
                 /\ loc' = loc
                 /\ pc' = "returned"
            ELSE /\ srv' = [srv EXCEPT !.src.webhooks = sw, !.src.fetch_failed = ~src_ok,
                                       !.dst.webhooks = dw]
                 /\ calls' = <<get_src, get_dst>>
                 /\ loc' = [source_webhooks |-> source_webhooks,
                            dest_webhooks |-> dest_webhooks,
                            i |-> 1, success_count |-> 0]
                 /\ pc' = "mw_delete"

\* One pass of the deletion loop; delete_webhook turns every failure into False.
MW_Delete ==
    /\ pc = "mw_delete"
    /\ loc.i <= Len(loc.dest_webhooks)
    /\ calls' = Append(calls, DeleteWebhookCall(loc.dest_webhooks[loc.i]))
    /\ \E ok \in BOOLEAN :
         srv' = IF ok
                THEN [srv EXCEPT !.dst.deleted = @ \cup {loc.dest_webhooks[loc.i].id}]
                ELSE srv
    /\ loc' = [loc EXCEPT !.i = @ + 1]
    /\ pc' = pc

MW_Deleted ==
    /\ pc = "mw_delete"
    /\ loc.i > Len(loc.dest_webhooks)
    /\ loc' = [loc EXCEPT !.i = 1]
    /\ pc' = "mw_migrate"
    /\ UNCHANGED <<calls, srv>>

\* One pass of the migration loop.  A CUSTOM_CODE webhook is created when it has an
\* executorIdentifier and get_custom_code returns its code from the source; an API
\* webhook is created as it is; any other type is only logged.
MW_Migrate ==
    /\ pc = "mw_migrate"
    /\ loc.i <= Len(loc.source_webhooks)
    /\ LET webhook == loc.source_webhooks[loc.i]
           get_code == Call("src", "GET", "custom_code", webhook.executorIdentifier)
           create == Call("dst", "POST", "webhook", webhook.id)
       IN \E code_ok \in BOOLEAN, ok \in BOOLEAN :
            LET custom == webhook.type = "CUSTOM_CODE" /\ webhook.executorIdentifier # None
                creates == webhook.type = "API" \/ (custom /\ code_ok)
            IN /\ custom \/ code_ok    \* an answer is drawn only for a request sent
               /\ creates \/ ok
               /\ calls' = calls \o (IF custom THEN <<get_code>> ELSE <<>>)
                                 \o (IF creates THEN <<create>> ELSE <<>>)
               /\ srv' = IF creates /\ ok THEN [srv EXCEPT !.dst.created = @ + 1] ELSE srv
               /\ loc' = [loc EXCEPT !.i = @ + 1,
                                     !.success_count = IF creates /\ ok THEN @ + 1 ELSE @]
    /\ pc' = pc

MW_Return ==
    /\ pc = "mw_migrate"
    /\ loc.i > Len(loc.source_webhooks)
    /\ pc' = "returned"
    /\ UNCHANGED <<loc, calls, srv>>

NextWebhooks ==
    \/ MW_Disabled
    \/ MW_Get
    \/ MW_Delete
    \/ MW_Deleted
    \/ MW_Migrate
    \/ MW_Return

SpecWebhooks == InitWebhooks /\ [][NextWebhooks]_vars

WebhookDeletions == {k \in 1..Len(calls) : calls[k].method = "DELETE" /\ calls[k].kind = "webhook"}

WebhookCreations == CallsOf("dst", "POST", "webhook")

\* C30: no webhook is deleted when the source's webhooks could not be fetched or there
\* are none; otherwise a deletion call is sent for every fetched destination webhook,
\* and every deletion call precedes the first creation call.
C30_DeleteOnlyToReplace ==
    /\ WebhookDeletions # {} => ~srv.src.fetch_failed /\ srv.src.webhooks # <<>>
    /\ \A k \in WebhookDeletions : calls[k].inst = "dst"
    /\ pc \in {"mw_migrate", "returned"} /\ "dest_webhooks" \in DOMAIN loc
          => \A i \in 1..Len(loc.dest_webhooks) :
                \E k \in WebhookDeletions : calls[k].payload = loc.dest_webhooks[i].id
    /\ \A k \in WebhookDeletions : \A j \in WebhookCreations : k < j

\* Two destination webhooks were deleted and then a source webhook was created.
C30_Witness ==
    /\ pc = "returned"
    /\ "dest_webhooks" \in DOMAIN loc
    /\ Len(loc.dest_webhooks) = 2
    /\ Cardinality(WebhookDeletions) = 2
    /\ WebhookCreations # {}

(***************************************************************************)
(* The instance every step writes to                                       *)
(***************************************************************************)

\* Steps main runs with both clients, each from its own start.
SpecWrites ==
    /\ \/ InitTenants
       \/ InitSettings
       \/ InitUsers
       \/ InitApplications
       \/ InitSecurity
       \/ InitTemplates
       \/ InitWebhooks
    /\ [][\/ NextTenants
          \/ NextSettings
          \/ NextUsers
          \/ NextApplications
          \/ NextSecurity
          \/ NextTemplates
          \/ NextWebhooks]_vars

SourceDefaults ==
    {i \in 1..Len(loc.source_applications) : loc.source_applications[i].isDefault}

\* C27: when migrate_applications returns after a non-empty source fetch,
\* create_application was called once for every source application, however many are
\* flagged isDefault, so created_count + failed_count is the number of source
\* applications.
C27_OneCreationPerSourceApp ==
    (pc = "returned" /\ "source_applications" \in DOMAIN loc) =>
        /\ Len(loc.results) = Len(loc.source_applications)
        /\ loc.created_count + loc.failed_count = Len(loc.source_applications)

\* The source has two applications, both flagged isDefault, and the run ended with one
\* call of create_application.
C27_Witness ==
    /\ pc = "returned"
    /\ "source_applications" \in DOMAIN loc
    /\ Len(loc.source_applications) = 2
    /\ Cardinality(SourceDefaults) = 2
    /\ Len(loc.results) = 1
    /\ loc.created_count + loc.failed_count = 1

\* The category phase of migrate_settings is over with category migration enabled and
\* no exception.
CategoryPhaseDone ==
    /\ pc \in {"ms_step4", "cp_loop", "ms_return", "returned"}
    /\ {"migrate_categories", "source_categories", "category_mapping"} \subseteq DOMAIN loc
    /\ loc.migrate_categories

UnmappedCategories ==
    {i \in 1..Len(loc.source_categories) :
        loc.source_categories[i].id \notin DOMAIN loc.category_mapping}

\* C28: after the category phase every source category id has an entry in
\* category_mapping, and so every source permission of a listed category is among the
\* permissions to migrate.
C28_EveryCategoryMapped ==
    CategoryPhaseDone =>
        /\ UnmappedCategories = {}
        /\ "permissions_to_migrate" \in DOMAIN loc =>
              \A j \in 1..Len(srv.src.permissions) :
                 (\E i \in 1..Len(loc.source_categories) :
                     loc.source_categories[i].id = srv.src.permissions[j].categoryId)
                     => \E m \in 1..Len(loc.permissions_to_migrate) :
                          loc.permissions_to_migrate[m].key = srv.src.permissions[j].key

\* A creation call was sent for the only source category, the phase ended without an
\* exception and the category has no entry in category_mapping; its permission is not
\* among the permissions to migrate.
C28_Witness ==
    /\ CategoryPhaseDone
    /\ "permissions_to_migrate" \in DOMAIN loc
    /\ Len(loc.source_categories) = 1
    /\ UnmappedCategories = {1}
    /\ CallsOf("dst", "POST", "categories") # {}
    /\ Len(srv.src.permissions) = 1
    /\ srv.src.permissions[1].categoryId = loc.source_categories[1].id
    /\ loc.permissions_to_migrate = <<>>

(***************************************************************************)
(* allowed_origins.py: migrate_allowed_origins                             *)
(***************************************************************************)

\* The longest list of allowed origins an instance answers.
MaxOrigins == 2

Origins == {"https://a", "https://b", "https://c"}

\* The lists an instance may answer; an origin may be listed more than once.
OriginLists == SeqsUpTo(Origins, MaxOrigins)

\* The orders list(set(...)) may give the elements of a set.
ListsOfSet(S) ==
    {l \in [1..Cardinality(S) -> S] : \A x \in S : \E i \in DOMAIN l : l[i] = x}

\* list(set(source_origins)): the destination's origins are left out.
MergedOrigins_SourceOnly(source_origins, dest_origins) ==
    ListsOfSet(Range(source_origins))

\* merged_origins = list(set(source_origins + dest_origins))
MergedOrigins(source_origins, dest_origins) ==
    ListsOfSet(Range(source_origins \o dest_origins))

InitOrigins ==
    /\ pc = "mao_start"
    /\ \E flag \in BOOLEAN : loc = [MIGRATE_ALLOWED_ORIGINS |-> flag]
    /\ calls = <<>>
    /\ \E so \in OriginLists, do \in OriginLists :
         srv = [src |-> [allowedOrigins |-> so],
                dst |-> [allowedOrigins |-> do, previous |-> do, updated |-> FALSE]]

MAO_Disabled ==
    /\ pc = "mao_start"
    /\ ~loc.MIGRATE_ALLOWED_ORIGINS
    /\ pc' = "returned"
    /\ UNCHANGED <<loc, calls, srv>>

\* get_vendor_details(source_client): None for a failure; the function returns when it
\* is falsy or lists no origin.
MAO_GetSource ==
    /\ pc = "mao_start"
    /\ loc.MIGRATE_ALLOWED_ORIGINS
    /\ calls' = Append(calls, Call("src", "GET", "vendor", None))
    /\ \E ok \in BOOLEAN :
         IF ok /\ srv.src.allowedOrigins # <<>>
         THEN /\ loc' = [source_origins |-> srv.src.allowedOrigins]
              /\ pc' = "mao_dest"
         ELSE /\ loc' = loc
              /\ pc' = "returned"
    /\ UNCHANGED srv

\* get_vendor_details(destination_client), the merge, and the update when the merged
\* list and the destination's list differ in length.  An accepted PUT leaves the
\* destination with the list of its payload.
MAO_Merge ==
    /\ pc = "mao_dest"
    /\ \E fetch_ok \in BOOLEAN, update_ok \in BOOLEAN :
         LET get == Call("dst", "GET", "vendor", None)
             dest_origins == srv.dst.allowedOrigins
         IN IF ~fetch_ok
            THEN /\ update_ok    \* no update is sent: its answer is not drawn
                 /\ calls' = Append(calls, get)
                 /\ loc' = loc
                 /\ srv' = srv
            ELSE \E merged_origins \in MergedOrigins(loc.source_origins, dest_origins) :
                   LET new_origins_count == Len(merged_origins) - Len(dest_origins)
                   IN /\ loc' = [source_origins |-> loc.source_origins,
                                 dest_origins |-> dest_origins,
                                 merged_origins |-> merged_origins,
                                 new_origins_count |-> new_origins_count]
                      /\ IF new_origins_count = 0
                         THEN /\ update_ok
                              /\ calls' = Append(calls, get)
                              /\ srv' = srv
                         ELSE /\ calls' = calls \o <<get, Call("dst", "PUT", "vendor",
                                                                merged_origins)>>
                              /\ srv' = IF update_ok
                                        THEN [srv EXCEPT !.dst.allowedOrigins = merged_origins,
                                                         !.dst.updated = TRUE]
                                        ELSE srv
    /\ pc' = "returned"

NextOrigins ==
    \/ MAO_Disabled
    \/ MAO_GetSource
    \/ MAO_Merge

SpecOrigins == InitOrigins /\ [][NextOrigins]_vars

====
